---- MODULE Spec2Model ----
(***************************************************************************)
(* Dataset Health Checker: the App component (src/src/App.tsx) and the     *)
(* feature suggestion engine (generateFeatureSuggestions, kept in          *)
(* src/src/utils/sampleData.ts from line 63 on).                           *)
(*                                                                         *)
(* A raw value is a record [k, n, s]: k is the type that type inference    *)
(* gives it (number, string, date, null), n its numeric value and s its    *)
(* text.  Every date value of the model has the YYYY-MM-DD shape.  A Row   *)
(* is a sequence of [c, v] pairs (key order matters: Object.keys), a Table *)
(* a sequence of Rows.                                                     *)
(***************************************************************************)
EXTENDS Integers, Sequences, FiniteSets, TLC

VARIABLES dataset, error, loading, featureLoading, featureSuggestions,
          featureSummary, featureHighlight, featureTab,
          selectedSuggestionIds, expandedSuggestionIds, previewModal,
          analysis, timers, effectTimer, parses, op, ratios,
          codeLanguage, pipelineScript, exported

vars == <<dataset, error, loading, featureLoading, featureSuggestions,
          featureSummary, featureHighlight, featureTab,
          selectedSuggestionIds, expandedSuggestionIds, previewModal,
          analysis, timers, effectTimer, parses, op, ratios,
          codeLanguage, pipelineScript, exported>>

-----------------------------------------------------------------------------
(* Generic helpers *)

NULL == [null |-> TRUE]

RECURSIVE SeqSum(_)
SeqSum(s) ==
    IF Len(s) = 0 THEN 0
    ELSE IF Len(s) = 1 THEN s[1]
    ELSE LET half == Len(s) \div 2
         IN  SeqSum(SubSeq(s, 1, half)) + SeqSum(SubSeq(s, half + 1, Len(s)))

RECURSIVE Concat(_)
Concat(ss) == IF ss = <<>> THEN <<>> ELSE Head(ss) \o Concat(Tail(ss))

SelectIdx(s, P(_)) == { i \in 1..Len(s) : P(s[i]) }

Range(s) == { s[i] : i \in 1..Len(s) }

Includes(s, x) == \E i \in 1..Len(s) : s[i] = x

Take(s, n) == SubSeq(s, 1, IF Len(s) < n THEN Len(s) ELSE n)

Abs(x) == IF x < 0 THEN -x ELSE x

RECURSIVE Gcd(_, _)
Gcd(a, b) == IF b = 0 THEN a ELSE Gcd(b, a % b)

RECURSIVE GcdAll(_)
GcdAll(s) ==
    IF Len(s) = 0 THEN 0
    ELSE IF Len(s) = 1 THEN Abs(s[1])
    ELSE LET half == Len(s) \div 2
         IN  Gcd(GcdAll(SubSeq(s, 1, half)), GcdAll(SubSeq(s, half + 1, Len(s))))

SeqMax(s) == CHOOSE x \in Range(s) : \A y \in Range(s) : y <= x
SeqMin(s) == CHOOSE x \in Range(s) : \A y \in Range(s) : x <= y

-----------------------------------------------------------------------------
(* Raw values and rows *)

Num(n) == [k |-> "number", n |-> n, s |-> ""]
Str(s) == [k |-> "string", n |-> 0, s |-> s]
Date(s, day) == [k |-> "date", n |-> day, s |-> s]
Empty == [k |-> "null", n |-> 0, s |-> ""]
Undefined == [k |-> "undefined", n |-> 0, s |-> ""]

Keys(r) == [i \in 1..Len(r) |-> r[i].c]

Get(r, col) ==
    IF \E i \in 1..Len(r) : r[i].c = col
    THEN r[CHOOSE i \in 1..Len(r) : r[i].c = col].v
    ELSE Undefined

StrKey(v) == [n |-> IF v.k = "number" THEN v.n ELSE 0, s |-> v.s, u |-> v.k = "undefined"]

IsMissing(v) == v.k \in {"null", "undefined"}

RECURSIVE Digits(_)
Digits(n) == IF n < 10 THEN 1 ELSE 1 + Digits(n \div 10)

(* String(v || '').length: a falsy value (0, '', null, undefined) gives ''. *)
TextLength(v) ==
    CASE v.k = "number" -> IF v.n = 0 THEN 0
                           ELSE IF v.n < 0 THEN 1 + Digits(-v.n) ELSE Digits(v.n)
      [] v.k \in {"string", "date"} -> Len(v.s)
      [] OTHER -> 0

(* /\d{4}-\d{2}-\d{2}/.test(String(v)) *)
DateShaped(v) == v.k = "date"

(* Number(v) || 0 *)
NumberOrZero(v) == IF v.k = "number" THEN v.n ELSE 0

-----------------------------------------------------------------------------
(* Column names.  A name is a string; what the code asks of a name (its  *)
(* first '_'-delimited token, the keywords it contains) is tabulated for *)
(* the names the model's tables use.  All names are lower case.          *)

ColInfo ==
    [ id                   |-> [prefix |-> "id",       has |-> {}],
      price                |-> [prefix |-> "price",    has |-> {"price"}],
      quantity             |-> [prefix |-> "quantity", has |-> {"quantity"}],
      total_price          |-> [prefix |-> "total",    has |-> {"price"}],
      discount             |-> [prefix |-> "discount", has |-> {}],
      score                |-> [prefix |-> "score",    has |-> {}],
      category             |-> [prefix |-> "category", has |-> {}],
      region               |-> [prefix |-> "region",   has |-> {}],
      segment              |-> [prefix |-> "segment",  has |-> {}],
      product_id           |-> [prefix |-> "product",  has |-> {"product"}],
      city                 |-> [prefix |-> "city",     has |-> {}],
      product_description  |-> [prefix |-> "product",  has |-> {"product"}],
      signup_date          |-> [prefix |-> "signup",   has |-> {}],
      last_purchase_date   |-> [prefix |-> "last",     has |-> {}],
      height_cm            |-> [prefix |-> "height",   has |-> {"height"}],
      weight_kg            |-> [prefix |-> "weight",   has |-> {"weight"}],
      revenue              |-> [prefix |-> "revenue",  has |-> {}],
      customer_tenure_days |-> [prefix |-> "customer", has |-> {"customer"}],
      amount               |-> [prefix |-> "amount",   has |-> {"amount"}],
      age                  |-> [prefix |-> "age",      has |-> {"age"}],
      note                 |-> [prefix |-> "note",     has |-> {}],
      order_date           |-> [prefix |-> "order",    has |-> {"order"}],
      score_math           |-> [prefix |-> "score",    has |-> {}],
      score_art            |-> [prefix |-> "score",    has |-> {}],
      score_music          |-> [prefix |-> "score",    has |-> {}],
      distance             |-> [prefix |-> "distance", has |-> {}],
      time                 |-> [prefix |-> "time",     has |-> {}],
      weight               |-> [prefix |-> "weight",   has |-> {"weight"}],
      height               |-> [prefix |-> "height",   has |-> {"height"}] ]

NamePrefix(col) == ColInfo[col].prefix

NameIncludes(col, kw) == kw \in ColInfo[col].has

NameMatches(col, kws) == \E kw \in kws : NameIncludes(col, kw)

-----------------------------------------------------------------------------
(* The profile (utils/analysis.ts), as far as the App and the suggestion  *)
(* engine read it.                                                        *)

Columns(rows) == IF rows = <<>> THEN <<>> ELSE Keys(rows[1])

ColumnValues(rows, col) == [i \in 1..Len(rows) |-> Get(rows[i], col)]

NumericValues(rows, col) ==
    LET vs == SelectSeq(ColumnValues(rows, col), LAMBDA v : v.k = "number")
    IN  [i \in 1..Len(vs) |-> vs[i].n]

(* statsForNumeric: an ordered map col -> values, numeric columns only *)
statsForNumeric(rows) ==
    LET cs == SelectSeq(Columns(rows),
                        LAMBDA c : \E i \in 1..Len(rows) : Get(rows[i], c).k = "number")
    IN  [i \in 1..Len(cs) |-> [col |-> cs[i], values |-> NumericValues(rows, cs[i])]]

(* categoricalSummary: an ordered map col -> unique *)
categoricalSummary(rows) ==
    LET cs == SelectSeq(Columns(rows),
                        LAMBDA c : \E i \in 1..Len(rows) :
                                      Get(rows[i], c).k \in {"string", "date"})
        present(c) == { i \in 1..Len(rows) : ~IsMissing(Get(rows[i], c)) }
    IN  [i \in 1..Len(cs) |->
            [col |-> cs[i],
             unique |-> Cardinality({ StrKey(Get(rows[j], cs[i])) : j \in present(cs[i]) })]]

(* findDuplicates: a row is a duplicate if its column/value pairs are those *)
(* of an earlier row, in whatever key order; the count of such rows.       *)
PairsOf(r) == { <<r[i].c, r[i].v>> : i \in 1..Len(r) }

DuplicateIndexes(rows) ==
    { i \in 1..Len(rows) : \E j \in 1..(i - 1) : PairsOf(rows[j]) = PairsOf(rows[i]) }

(* a / b rounded to the nearest integer, halves up (a >= 0, b > 0) *)
RoundDiv(a, b) == (2 * a + b) \div (2 * b)

(* count and percentage of the rows, the percentage in hundredths *)
findDuplicates(rows) ==
    [count |-> Cardinality(DuplicateIndexes(rows)),
     percent |-> RoundDiv(Cardinality(DuplicateIndexes(rows)) * 10000, Len(rows))]

(* inferType: null, number, date or string (the model has no booleans) *)
inferType(v) ==
    CASE IsMissing(v) -> "null"
      [] v.k = "number" -> "number"
      [] v.k = "date" -> "date"
      [] OTHER -> "string"

(* getColumnTypes: per column the set of the types observed *)
getColumnTypes(rows) ==
    LET cs == Columns(rows)
    IN  [i \in 1..Len(cs) |->
           [col |-> cs[i], types |-> { inferType(Get(rows[j], cs[i])) : j \in 1..Len(rows) }]]

(* missingPercentages: per column the share of missing values, in hundredths *)
missingPercentages(rows) ==
    LET cs == Columns(rows)
    IN  [i \in 1..Len(cs) |->
           [col |-> cs[i],
            percent |-> RoundDiv(Cardinality({ j \in 1..Len(rows) :
                                                 IsMissing(Get(rows[j], cs[i])) }) * 10000,
                                 Len(rows))]]

(* quantile(sorted, num/4), times 4: position (n-1)*q, linear interpolation *)
Quantile4(sorted, num) ==
    LET n == Len(sorted)
        pos4 == (n - 1) * num
        lo == pos4 \div 4
        r == pos4 % 4
        hi == IF r = 0 THEN lo ELSE lo + 1
    IN  sorted[lo + 1] * (4 - r) + sorted[hi + 1] * r

(* iqrOutliers: values beyond Q1 - 1.5 IQR or Q3 + 1.5 IQR, per numeric    *)
(* column of five values or more; the comparison is scaled by 8.          *)
OutliersOf(values) ==
    IF Len(values) < 5 THEN 0
    ELSE LET sorted == SortSeq(values, LAMBDA a, b : a < b)
             q1 == Quantile4(sorted, 1)
             q3 == Quantile4(sorted, 3)
             iqr == q3 - q1
         IN  Cardinality({ i \in 1..Len(values) :
                             \/ 8 * values[i] < 2 * q1 - 3 * iqr
                             \/ 8 * values[i] > 2 * q3 + 3 * iqr })

iqrOutliers(rows) ==
    [total |-> SeqSum([i \in 1..Len(statsForNumeric(rows)) |->
                         OutliersOf(statsForNumeric(rows)[i].values)])]

(* The weights of the five signals, in hundredths *)
WeightsShort == [completeness |-> 35, duplicates |-> 20, outliers |-> 15,
                 types |-> 15, cardinality |-> 10]

Weights == [completeness |-> 35, duplicates |-> 20, outliers |-> 15,
            types |-> 15, cardinality |-> 15]

Min(a, b) == IF a < b THEN a ELSE b

(* A number of the scorer: num / den, NaN when den = 0 (0 / 0) *)
Ratio(num, den) == [num |-> num, den |-> den]
IsNaN(x) == x.den = 0

(* scoreOverall: the five signals rescaled to 0..100 and their weighted   *)
(* sum, clamped to 0..100 and rounded to one decimal (kept in tenths).    *)
(* missingAvg, typeIssuesScore and cardinalityScore arrive as ratios,     *)
(* duplicatePercent in hundredths.  A NaN input gives a NaN score.        *)
scoreOverall(missingAvg, duplicatePercent, outlierTotal, rowCount, typeIssuesScore, cardinalityScore) ==
    LET n == IF rowCount > 1 THEN rowCount ELSE 1
        completeness == Ratio(100 * missingAvg.den - missingAvg.num, missingAvg.den)
        duplicates == Ratio(10000 - duplicatePercent, 100)
        outlierPenalty == Ratio(100 * n - Min(100 * n, 100 * outlierTotal), n)
        signals == [completeness |-> completeness, duplicates |-> duplicates,
                    outliers |-> outlierPenalty, types |-> typeIssuesScore,
                    cardinality |-> cardinalityScore]
        names == DOMAIN signals
        nan == \E k \in names : IsNaN(signals[k])
        (* a common denominator: every signal is an integer over L *)
        L == missingAvg.den * n
        over(x) == x.num * (L \div x.den)
        T == Weights.completeness * over(completeness)
             + Weights.duplicates * over(duplicates)
             + Weights.outliers * over(outlierPenalty)
             + Weights.types * over(typeIssuesScore)
             + Weights.cardinality * over(cardinalityScore)
        tenths == RoundDiv(T, 10 * L)
    IN  [signals |-> signals,
         nan |-> nan,
         tenths |-> IF nan THEN 0 ELSE IF tenths > 1000 THEN 1000 ELSE IF tenths < 0 THEN 0
                    ELSE tenths]

(* healthBadge: >= 90 Excellent, >= 70 Good, >= 50 Fair, else Poor; every *)
(* comparison with NaN is false.                                          *)
healthBadge(overall) ==
    IF overall.nan THEN "Poor"
    ELSE IF overall.tenths >= 900 THEN "Excellent"
    ELSE IF overall.tenths >= 700 THEN "Good"
    ELSE IF overall.tenths >= 500 THEN "Fair"
    ELSE "Poor"

-----------------------------------------------------------------------------
(* The feature suggestion engine (utils/featureEngineering.ts) *)

PriorityFromImpactAnyComplexity(impact, complexity) ==
    IF impact >= 4 THEN "high"
    ELSE IF impact <= 2 THEN "low"
    ELSE "medium"

priorityFromImpact(impact, complexity) ==
    IF impact >= 4 /\ complexity \in {"Easy", "Moderate"} THEN "high"
    ELSE IF impact <= 2 THEN "low"
    ELSE "medium"

(* One statement of a code template: the feature it derives, the operation *)
(* and its operands and parameters.                                       *)
Expr(feature, operation, args) == [feature |-> feature, operation |-> operation, args |-> args]

NoCode == [python |-> <<>>, r |-> <<>>, sql |-> <<>>]

(* What a rule hands to addSuggestion: no id, and no rule gives a priority. *)
Idea(category, title, columns, impact, complexity) ==
    [category |-> category, title |-> title, columns |-> columns,
     impact |-> impact, complexity |-> complexity, priority |-> "unset",
     example |-> <<>>, code |-> NoCode]

(* code: { python, r, sql } *)
WithCode(idea, python, r, sql) == [idea EXCEPT !.code = [python |-> python, r |-> r, sql |-> sql]]

IdOf(category, n) == category \o "-" \o ToString(n)

AddSuggestionPerCategory(suggestions, s) ==
    LET priority == IF s.priority # "unset" THEN s.priority
                    ELSE priorityFromImpact(s.impact, s.complexity)
        k == Cardinality(SelectIdx(suggestions, LAMBDA x : x.category = s.category))
    IN  Append(suggestions,
               [s EXCEPT !.priority = priority] @@ ("id" :> IdOf(s.category, k + 1)))

addSuggestion(suggestions, s) ==
    LET priority == IF s.priority # "unset" THEN s.priority
                    ELSE priorityFromImpact(s.impact, s.complexity)
    IN  Append(suggestions,
               [s EXCEPT !.priority = priority]
                  @@ ("id" :> IdOf(s.category, Len(suggestions) + 1)))

RECURSIVE AddAll(_, _)
AddAll(suggestions, ideas) ==
    IF ideas = <<>> THEN suggestions
    ELSE AddAll(addSuggestion(suggestions, Head(ideas)), Tail(ideas))

FlatMap(s, F(_)) == Concat([i \in 1..Len(s) |-> F(s[i])])

UniqueCount(values) == Cardinality(Range(values))

PolynomialIdeasAsBinning(numericStats) ==
    FlatMap(numericStats, LAMBDA e :
        IF UniqueCount(e.values) > 50
        THEN LET powers == << Expr(<<e.col, "_squared">>, "power", <<e.col, 2>>),
                              Expr(<<e.col, "_cubed">>, "power", <<e.col, 3>>) >>
             IN  <<WithCode(Idea("numeric", <<"Polynomial features for ", e.col>>, <<e.col>>,
                                 4, "Easy"),
                            powers, powers, powers)>>
        ELSE <<>>)

(* Numeric: polynomial *)
PolynomialIdeas(numericStats) ==
    FlatMap(numericStats, LAMBDA e :
        IF UniqueCount(e.values) > 100
        THEN LET powers == << Expr(<<e.col, "_squared">>, "power", <<e.col, 2>>),
                              Expr(<<e.col, "_cubed">>, "power", <<e.col, 3>>) >>
             IN  <<WithCode(Idea("numeric", <<"Polynomial features for ", e.col>>, <<e.col>>,
                                 4, "Easy"),
                            powers, powers, powers)>>
        ELSE <<>>)

(* Numeric: binning *)
BinningIdeas(numericStats) ==
    FlatMap(numericStats, LAMBDA e :
        IF UniqueCount(e.values) > 50
        THEN LET sorted == SortSeq(e.values, LAMBDA a, b : a < b)
                 q1 == Quantile4(sorted, 1)
                 q3 == Quantile4(sorted, 3)
             IN  <<WithCode(Idea("numeric", <<"Discretize ", e.col>>, <<e.col>>, 3, "Easy"),
                            <<Expr(<<e.col, "_quartile">>, "quantile bins", <<e.col, 4>>)>>,
                            <<Expr(<<e.col, "_quartile">>, "quantile bins", <<e.col, 4>>)>>,
                            <<Expr(<<e.col, "_band">>, "bands below", <<e.col, q1, q3>>)>>)>>
        ELSE <<>>)

(* Deviations from the mean, scaled by the number of values (n*v - sum),  *)
(* and divided by their common divisor: skewness does not depend on scale *)
Deviations(values) ==
    LET n == Len(values)
        S == SeqSum(values)
        d == [i \in 1..n |-> n * values[i] - S]
        g == GcdAll(d)
    IN  IF g = 0 THEN d ELSE [i \in 1..n |-> d[i] \div g]

SumSquares(d) == SeqSum([i \in 1..Len(d) |-> d[i] * d[i]])
SumCubes(d) == SeqSum([i \in 1..Len(d) |-> d[i] * d[i] * d[i]])

(* std = sqrt(mean((v - avg)^2)) is 0 iff every deviation is 0 *)
StdIsZero(values) == SumSquares(Deviations(values)) = 0

(* |mean((v-avg)^3) / std^3| > 1, i.e. n * (sum d^3)^2 > (sum d^2)^3 *)
SkewnessAboveOne(values) ==
    LET d == Deviations(values)
        A == SumCubes(d)
        B == SumSquares(d)
    IN  A # 0 /\ Len(values) * A * A > B * B * B

(* Numeric: skewness transforms & scaling *)
SkewAndScaleIdeas(numericStats) ==
    FlatMap(numericStats, LAMBDA e :
        IF Len(e.values) < 5 THEN <<>>
        ELSE IF StdIsZero(e.values) THEN <<>>
        ELSE (IF SkewnessAboveOne(e.values)
              THEN LET log == <<Expr(<<e.col, "_log">>, "log1p", <<e.col>>)>>
                   IN  <<WithCode(Idea("numeric", <<"Normalize skewed ", e.col>>, <<e.col>>,
                                       4, "Easy"),
                                  log, log, log)>>
              ELSE <<>>)
             \o
             (IF SeqMax(e.values) - SeqMin(e.values) > 1000
              THEN LET z == <<Expr(<<e.col, "_z">>, "z-score", <<e.col>>)>>
                   IN  <<WithCode(Idea("numeric", <<"Scale ", e.col>>, <<e.col>>, 3, "Easy"),
                                  z, z, z)>>
              ELSE <<>>))

(* [a, b, feature, pythonCode]; per: feature.includes('per') *)
combos ==
    << [a |-> "price", b |-> "quantity", feature |-> "total_value", per |-> FALSE,
        python |-> <<Expr(<<"total_value">>, "multiply", <<"price", "quantity">>)>>],
       [a |-> "distance", b |-> "time", feature |-> "speed", per |-> FALSE,
        python |-> <<Expr(<<"speed">>, "divide", <<"distance", "time">>)>>],
       [a |-> "weight", b |-> "height", feature |-> "bmi", per |-> FALSE,
        python |-> <<Expr(<<"bmi">>, "divide by square", <<"weight", "height">>)>>],
       [a |-> "price", b |-> "total_price", feature |-> "price_per_unit", per |-> TRUE,
        python |-> <<Expr(<<"price_per_unit">>, "divide", <<"total_price", "quantity">>)>>] >>

(* Numeric combinations & ratios.  r is the python code with its syntax  *)
(* rewritten; sql divides a by b when the feature name contains 'per',  *)
(* multiplies them otherwise.                                           *)
ComboIdeas(columns) ==
    FlatMap(combos, LAMBDA p :
        IF Includes(columns, p.a) /\ Includes(columns, p.b)
        THEN <<WithCode(Idea("numeric", <<"Combine ", p.a, " & ", p.b>>, <<p.a, p.b>>,
                             4, "Easy"),
                        p.python,
                        p.python,
                        <<Expr(<<p.feature>>, IF p.per THEN "divide" ELSE "multiply",
                               <<p.a, p.b>>)>>)>>
        ELSE <<>>)

RECURSIVE Uniq(_)
Uniq(s) ==
    IF s = <<>> THEN <<>>
    ELSE LET rest == Uniq(SubSeq(s, 1, Len(s) - 1))
         IN  IF Includes(rest, s[Len(s)]) THEN rest ELSE Append(rest, s[Len(s)])

(* Aggregations (detect groups with prefixes) *)
PrefixIdeas(numericColumns) ==
    LET prefixes == Uniq([i \in 1..Len(numericColumns) |-> NamePrefix(numericColumns[i])])
    IN  FlatMap(prefixes, LAMBDA prefix :
            LET cols == SelectSeq(numericColumns, LAMBDA c : NamePrefix(c) = prefix)
                mean == Expr(<<prefix, "_mean">>, "row mean", cols)
                sum == Expr(<<prefix, "_sum">>, "row sum", cols)
            IN  IF Len(cols) >= 3
                THEN <<WithCode(Idea("numeric", <<"Aggregate ", prefix, " metrics">>, cols,
                                     3, "Easy"),
                                <<mean, sum>>, <<mean>>, <<sum>>)>>
                ELSE <<>>)

(* Ratio features for columns sharing units *)
RatioIdeas(numericColumns) ==
    Concat([idx \in 1..Len(numericColumns) |->
        LET a == numericColumns[idx]
        IN  FlatMap(SubSeq(numericColumns, idx + 1, Len(numericColumns)), LAMBDA b :
                IF NameIncludes(a, "price") /\ NameIncludes(b, "quantity")
                THEN LET ratio == <<Expr(<<a, "_per_", b>>, "divide", <<a, b>>)>>
                     IN  <<WithCode(Idea("numeric", <<"Ratio ", a, "/", b>>, <<a, b>>,
                                         4, "Easy"),
                                    ratio, ratio, ratio)>>
                ELSE <<>>)])

(* countBy(rows.map(r => r[col])): the counts of the distinct values *)
CountBy(rows, col) ==
    LET keys == { StrKey(Get(rows[i], col)) : i \in 1..Len(rows) }
    IN  [k \in keys |-> Cardinality({ i \in 1..Len(rows) : StrKey(Get(rows[i], col)) = k })]

RareValuesAtMost(rows, col) ==
    LET counts == CountBy(rows, col)
    IN  { k \in DOMAIN counts : counts[k] * 100 <= Len(rows) }

(* count / rows.length < 0.01 *)
RareValues(rows, col) ==
    LET counts == CountBy(rows, col)
    IN  { k \in DOMAIN counts : counts[k] * 100 < Len(rows) }

TextLengthSum(rows, col) == SeqSum([i \in 1..Len(rows) |-> TextLength(Get(rows[i], col))])

(* The thresholds taken as strict bounds *)
EncodingForBelow(unique) ==
    IF unique < 10 THEN "One-Hot Encoding"
    ELSE IF unique < 20 THEN "Ordinal Encoding"
    ELSE IF unique < 50 THEN "Target Encoding"
    ELSE "Frequency Encoding"

(* let encoding ...: by the unique count *)
EncodingFor(unique) ==
    IF unique <= 10 THEN "One-Hot Encoding"
    ELSE IF unique <= 20 THEN "Ordinal Encoding"
    ELSE IF unique <= 50 THEN "Target Encoding"
    ELSE "Frequency Encoding"

(* code.python of an encoding; code.r and code.sql are comments only *)
EncodingPython(col, encoding) ==
    CASE encoding = "One-Hot Encoding" -> <<Expr(<<col>>, "one-hot", <<col>>)>>
      [] encoding = "Ordinal Encoding" -> <<Expr(<<col, "_ordinal">>, "ordinal", <<col>>)>>
      [] encoding = "Target Encoding" -> <<Expr(<<col, "_te">>, "target mean", <<col, "target">>)>>
      [] OTHER -> <<Expr(<<col, "_freq">>, "frequency", <<col>>)>>

(* Categorical encoding recommendations, rare categories, length feature *)
CategoricalIdeas(rows, columns, catSummary) ==
    FlatMap(catSummary, LAMBDA e :
        IF ~Includes(columns, e.col) THEN <<>>
        ELSE LET encoding == EncodingFor(e.unique)
                 rare == RareValues(rows, e.col)
                 group == <<Expr(<<e.col, "_grouped">>, "group rare", <<e.col, rare>>)>>
                 length == <<Expr(<<e.col, "_length">>, "length", <<e.col>>)>>
             IN
             <<[WithCode(Idea("categorical", <<"Encode ", e.col>>, <<e.col>>, 5,
                              IF e.unique <= 10 THEN "Easy" ELSE "Moderate"),
                         EncodingPython(e.col, encoding), <<>>, <<>>)
                  EXCEPT !.example = <<e.col, encoding>>]>>
             \o
             (IF rare # {}
              THEN <<WithCode(Idea("categorical", <<"Group rare ", e.col, " categories">>,
                                   <<e.col>>, 3, "Easy"),
                              group, group, group)>>
              ELSE <<>>)
             \o
             (IF /\ TextLengthSum(rows, e.col) > 5 * Len(rows)
                 /\ TextLengthSum(rows, e.col) < 80 * Len(rows)
              THEN <<WithCode(Idea("categorical", <<"Length feature for ", e.col>>,
                                   <<e.col>>, 2, "Easy"),
                              length, length, length)>>
              ELSE <<>>))

CategoricalComboIdeas(categoricalColumns) ==
    IF Len(categoricalColumns) >= 2
    THEN LET c1 == categoricalColumns[1]
             c2 == categoricalColumns[2]
             joined == <<Expr(<<c1, "_", c2>>, "concatenate", <<c1, c2>>)>>
         IN  <<WithCode(Idea("categorical", <<"Combine ", c1, " & ", c2>>, <<c1, c2>>,
                             3, "Moderate"),
                        joined, joined, joined)>>
    ELSE <<>>

(* Datetime detection *)
(* The date-like columns, the last column first *)
DateColumnsLastFirst(rows, columns) ==
    LET found == SelectSeq(columns, LAMBDA col :
                              \E i \in 1..Len(rows) : DateShaped(Get(rows[i], col)))
    IN  [i \in 1..Len(found) |-> found[Len(found) + 1 - i]]

DateColumns(rows, columns) ==
    SelectSeq(columns, LAMBDA col : \E i \in 1..Len(rows) : DateShaped(Get(rows[i], col)))

DatetimeIdeas(dateColumns) ==
    FlatMap(dateColumns, LAMBDA col :
        LET parse == Expr(<<col>>, "to date", <<col>>)
            month == Expr(<<col, "_month">>, "month", <<col>>)
            dow == Expr(<<col, "_dow">>, "day of week", <<col>>)
            sin == <<Expr(<<col, "_month_sin">>, "month sine", <<col>>)>>
        IN  << WithCode(Idea("datetime", <<"Extract components from ", col>>, <<col>>,
                             5, "Easy"),
                        <<parse, month, dow>>, <<parse, month>>, <<month>>),
               WithCode(Idea("datetime", <<"Cyclical encoding for ", col>>, <<col>>,
                             4, "Moderate"),
                        sin, sin, sin) >>)
    \o
    (IF Len(dateColumns) >= 2
     THEN LET d1 == dateColumns[1]
              d2 == dateColumns[2]
              days == <<Expr(<<d2, "_", d1, "_days">>, "days from to", <<d1, d2>>)>>
          IN  <<WithCode(Idea("datetime", <<"Days between ", d1, " & ", d2>>, <<d1, d2>>,
                              4, "Easy"),
                         days, days, days)>>
     ELSE <<>>)

(* keywords.some(kw => lowerCols.some(c => c.includes(kw))) *)
ContainsKeyword(columns, keywords) ==
    \E kw \in keywords : \E i \in 1..Len(columns) : NameIncludes(columns[i], kw)

(* Domain heuristics *)
DomainIdeas(columns, dateColumns, numericColumns) ==
    (IF ContainsKeyword(columns, {"price", "order", "product", "customer", "quantity"})
     THEN LET pct == Expr(<<"discount_pct">>, "relative difference", <<"price", "total_price">>)
              basket == Expr(<<"basket_size">>, "copy", <<"quantity">>)
          IN  <<WithCode(Idea("domain", <<"E-commerce basket insights">>,
                              SelectSeq(columns, LAMBDA c :
                                  NameMatches(c, {"price", "quantity", "order"})),
                              4, "Moderate"),
                         <<pct, basket>>, <<pct>>, <<pct>>)>>
     ELSE <<>>)
    \o
    (IF ContainsKeyword(columns, {"sqft", "bedroom", "bathroom", "lot", "property"})
     THEN LET ratio == <<Expr(<<"price_per_sqft">>, "divide", <<"price", "sqft">>)>>
          IN  <<WithCode(Idea("domain", <<"Real estate structural ratios">>,
                              SelectSeq(columns, LAMBDA c :
                                  NameMatches(c, {"price", "sqft", "bed", "bath", "year"})),
                              5, "Easy"),
                         ratio, ratio, ratio)>>
     ELSE <<>>)
    \o
    (IF ContainsKeyword(columns, {"amount", "balance", "account", "transaction"})
     THEN LET count == <<Expr(<<"txn_per_customer">>, "count per group",
                              <<"transaction_id", "customer_id">>)>>
          IN  <<WithCode(Idea("domain", <<"Financial velocity features">>,
                              SelectSeq(columns, LAMBDA c :
                                  NameMatches(c, {"amount", "transaction", "balance"})),
                              4, "Advanced"),
                         count, count, count)>>
     ELSE <<>>)
    \o
    (IF ContainsKeyword(columns, {"patient", "diagnosis", "treatment", "age", "symptom"})
     THEN LET bmi == <<Expr(<<"BMI">>, "divide by square of hundredth",
                            <<"weight_kg", "height_cm">>)>>
          IN  <<WithCode(Idea("domain", <<"Healthcare BMI & age groups">>,
                              SelectSeq(columns, LAMBDA c :
                                  NameMatches(c, {"weight", "height", "age", "symptom"})),
                              5, "Easy"),
                         bmi, bmi, bmi)>>
     ELSE <<>>)
    \o
    (IF Len(dateColumns) > 0 /\ Len(numericColumns) > 0
     THEN LET rolling == <<Expr(<<"rolling_7">>, "rolling mean ordered by",
                                <<numericColumns[1], dateColumns[1], 7>>)>>
          IN  <<WithCode(Idea("domain", <<"Time-based rolling metrics">>,
                              dateColumns \o Take(numericColumns, 2), 4, "Advanced"),
                         rolling, rolling, rolling)>>
     ELSE <<>>)

IdeasDomainFirst(rows, numericStats, catSummary) ==
    LET columns == Keys(rows[1])
        numericColumns == [i \in 1..Len(numericStats) |-> numericStats[i].col]
        categoricalColumns == [i \in 1..Len(catSummary) |-> catSummary[i].col]
        dateColumns == DateColumns(rows, columns)
    IN  DomainIdeas(columns, dateColumns, numericColumns)
        \o PolynomialIdeas(numericStats)
        \o BinningIdeas(numericStats)
        \o SkewAndScaleIdeas(numericStats)
        \o ComboIdeas(columns)
        \o PrefixIdeas(numericColumns)
        \o RatioIdeas(numericColumns)
        \o CategoricalIdeas(rows, columns, catSummary)
        \o CategoricalComboIdeas(categoricalColumns)
        \o DatetimeIdeas(dateColumns)

(* Every idea of one run, in the order the rules hand them to addSuggestion *)
Ideas(rows, numericStats, catSummary) ==
    LET columns == Keys(rows[1])
        numericColumns == [i \in 1..Len(numericStats) |-> numericStats[i].col]
        categoricalColumns == [i \in 1..Len(catSummary) |-> catSummary[i].col]
        dateColumns == DateColumns(rows, columns)
    IN  PolynomialIdeas(numericStats)
        \o BinningIdeas(numericStats)
        \o SkewAndScaleIdeas(numericStats)
        \o ComboIdeas(columns)
        \o PrefixIdeas(numericColumns)
        \o RatioIdeas(numericColumns)
        \o CategoricalIdeas(rows, columns, catSummary)
        \o CategoricalComboIdeas(categoricalColumns)
        \o DatetimeIdeas(dateColumns)
        \o DomainIdeas(columns, dateColumns, numericColumns)

EmptySummary == [total |-> 0, high |-> 0, medium |-> 0, low |-> 0]

SummaryStepAllHigh(acc, s) == [acc EXCEPT !.total = @ + 1, !.high = @ + 1]

(* acc.total++ ; if high acc.high++ else if medium acc.medium++ else acc.low++ *)
SummaryStep(acc, s) ==
    IF s.priority = "high" THEN [acc EXCEPT !.total = @ + 1, !.high = @ + 1]
    ELSE IF s.priority = "medium" THEN [acc EXCEPT !.total = @ + 1, !.medium = @ + 1]
    ELSE [acc EXCEPT !.total = @ + 1, !.low = @ + 1]

RECURSIVE Reduce(_, _)
Reduce(suggestions, acc) ==
    IF suggestions = <<>> THEN acc
    ELSE Reduce(Tail(suggestions), SummaryStep(acc, Head(suggestions)))

Summary(suggestions) == Reduce(suggestions, EmptySummary)

HighlightFirstThree(suggestions) == Take(suggestions, 3)

(* suggestions.filter(s => s.priority === 'high').slice(0, 3) *)
Highlight(suggestions) == Take(SelectSeq(suggestions, LAMBDA s : s.priority = "high"), 3)

GenerateWithoutEmptyGuard(rows, numericStats, catSummary) ==
    LET numericColumns == [i \in 1..Len(numericStats) |-> numericStats[i].col]
        suggestions == AddAll(<<>>, IF rows = <<>> THEN RatioIdeas(numericColumns)
                                    ELSE Ideas(rows, numericStats, catSummary))
    IN  [suggestions |-> suggestions,
         summary |-> Summary(suggestions),
         highlight |-> Highlight(suggestions)]

generateFeatureSuggestions(rows, numericStats, catSummary) ==
    IF rows = <<>>
    THEN [suggestions |-> <<>>, summary |-> EmptySummary, highlight |-> <<>>]
    ELSE LET suggestions == AddAll(<<>>, Ideas(rows, numericStats, catSummary))
         IN  [suggestions |-> suggestions,
              summary |-> Summary(suggestions),
              highlight |-> Highlight(suggestions)]

-----------------------------------------------------------------------------
(* Tables *)

Cell(c, v) == [c |-> c, v |-> v]

SampleRows == 2

City(i) == IF i % 2 = 1 THEN "City-7" ELSE "City-12"

(* generateSample: row i of the sample (the random draws are fixed per row) *)
SampleRow(i) ==
    << Cell("id", Num(i)),
       Cell("price", Num(100 + 20 * i)),
       Cell("quantity", Num(1 + (i % 3))),
       Cell("total_price", Num((100 + 20 * i) * (1 + (i % 3)))),
       Cell("discount", IF i % 2 = 0 THEN Num(0) ELSE Empty),
       Cell("score", IF i % 3 = 0 THEN Empty ELSE Num(60 + i)),
       Cell("category", Str(IF i % 2 = 1 THEN "Standard" ELSE "Eco")),
       Cell("region", Str(IF i % 2 = 1 THEN "Europe" ELSE "Africa")),
       Cell("segment", Str(IF i % 2 = 1 THEN "B2C" ELSE "B2B")),
       Cell("product_id", Str(IF i % 2 = 1 THEN "PID-1001" ELSE "PID-1002")),
       Cell("city", Str(City(i))),
       Cell("product_description", Str("Budget-friendly alternative with essential features.")),
       Cell("signup_date", Date("2026-01-05", 5 + i)),
       Cell("last_purchase_date", Date("2026-02-10", 41 + 2 * i)),
       Cell("height_cm", Num(150 + i)),
       Cell("weight_kg", Num(60 + i)),
       Cell("revenue", Num((100 + 20 * i) * (1 + (i % 3)))),
       Cell("customer_tenure_days", Num(300 - i)) >>

(* generateSample(rows): the rows, then floor(rows * 0.05) copies of the first ones *)
generateSample(n) ==
    LET data == [i \in 1..n |-> SampleRow(i)]
        dupCount == (n * 5) \div 100
    IN  data \o [i \in 1..dupCount |-> data[i]]

OrderRow(price, quantity, city, day) ==
    << Cell("price", Num(price)), Cell("quantity", Num(quantity)),
       Cell("city", Str(city)), Cell("signup_date", Date("2024-03-0" \o ToString(day), day)) >>

OrdersChunk1 == << OrderRow(10, 1, "Berlin", 1), OrderRow(10, 2, "Paris", 2),
                   OrderRow(10, 3, "Berlin", 3) >>
OrdersChunk2 == << OrderRow(10, 1, "Madrid", 4), OrderRow(10, 2, "Berlin", 5),
                   OrderRow(1210, 3, "Berlin", 1) >>

PeopleRows == << << Cell("age", Num(30)), Cell("amount", Num(5)), Cell("note", Str("ok")) >>,
                 << Cell("age", Num(41)), Cell("amount", Empty), Cell("note", Str("vip")) >> >>

MAX_SIZE == 5 * 1024 * 1024

(* The files a user can drop.  chunks: what the CSV parser delivers, chunk *)
(* by chunk; for a spreadsheet, the one row list of its first sheet.       *)
Files ==
    { [name |-> "orders.csv", size |-> 4096, excel |-> FALSE,
       chunks |-> <<OrdersChunk1, OrdersChunk2>>],
      [name |-> "empty.csv", size |-> 1, excel |-> FALSE, chunks |-> <<>>],
      [name |-> "big.csv", size |-> MAX_SIZE + 1, excel |-> FALSE,
       chunks |-> <<OrdersChunk1>>],
      [name |-> "people.xlsx", size |-> MAX_SIZE, excel |-> TRUE,
       chunks |-> <<PeopleRows>>],
      [name |-> "blank.xlsx", size |-> 2048, excel |-> TRUE,
       chunks |-> << << <<>> >> >>] }

AllRows(file) == Concat(file.chunks)

(* Tables as the dashboard can hold them once a file is loaded *)
CatalogRows ==
    [i \in 1..6 |-> << Cell("product_id", Str("PID-" \o ToString(i))),
                       Cell("note", Str(IF i % 2 = 0 THEN "ok" ELSE "vip")) >>]

CityRows(unique) == [i \in 1..unique |-> << Cell("city", Str("c" \o ToString(i))) >>]

StockRows == << << Cell("quantity", Num(2)), Cell("price", Num(10)) >>,
                << Cell("quantity", Num(3)), Cell("price", Num(12)) >> >>

(* n rows of one numeric column: low times the value 1, then the value top *)
WideRows(n, low, top) ==
    [i \in 1..n |-> << Cell("revenue", Num(IF i <= low THEN 1 ELSE top)) >>]

OneDateRows == << << Cell("signup_date", Date("2024-01-05", 5)), Cell("note", Str("a")) >>,
                  << Cell("signup_date", Date("2024-01-09", 9)), Cell("note", Str("b")) >> >>

ThreeDateRows ==
    << << Cell("order_date", Date("2024-02-01", 32)),
          Cell("signup_date", Date("2024-01-05", 5)),
          Cell("last_purchase_date", Date("2024-03-01", 61)) >>,
       << Cell("order_date", Date("2024-02-02", 33)),
          Cell("signup_date", Date("2024-01-09", 9)),
          Cell("last_purchase_date", Date("2024-03-05", 65)) >> >>

DuplicateRows == << OrderRow(10, 1, "Berlin", 1), OrderRow(10, 2, "Paris", 2),
                    OrderRow(10, 1, "Berlin", 1), OrderRow(10, 1, "Berlin", 1) >>

(* The same pairs, the keys in another order: a Table as the data model   *)
(* admits it (the parsers give every row the key order of the header)     *)
ReorderedRows == << << Cell("age", Num(30)), Cell("note", Str("ok")) >>,
                    << Cell("note", Str("ok")), Cell("age", Num(30)) >> >>

NumberRows(n) == [i \in 1..n |-> << Cell("score", Num(i)) >>]

(* 102 rows: score has 102 distinct values, age 51 (each one twice) *)
TwoNumberRows == [i \in 1..102 |-> << Cell("score", Num(i)),
                                      Cell("age", Num(((i - 1) % 51) + 1)) >>]

(* n rows of one categorical column: few times Paris, then Berlin *)
RareRows(n, few) ==
    [i \in 1..n |-> << Cell("city", Str(IF i <= few THEN "Paris" ELSE "Berlin")) >>]

ScoreRows == << << Cell("score_math", Num(7)), Cell("score_art", Num(8)),
                   Cell("score_music", Num(9)) >>,
                << Cell("score_math", Num(5)), Cell("score_art", Num(6)),
                   Cell("score_music", Num(4)) >> >>

TripRows == << << Cell("distance", Num(120)), Cell("time", Num(2)),
                  Cell("weight", Num(70)), Cell("height", Num(2)) >>,
               << Cell("distance", Num(90)), Cell("time", Num(3)),
                  Cell("weight", Num(80)), Cell("height", Num(2)) >> >>

(* No missing value, no duplicate, no outlier, one type per column, a    *)
(* categorical column of 2 distinct values in 4 rows                    *)
CleanRows == [i \in 1..4 |-> << Cell("id", Num(i)),
                                Cell("city", Str(IF i <= 2 THEN "Berlin" ELSE "Paris")) >>]

LoadedTables ==
    { [name |-> "sample_dataset.csv", rows |-> generateSample(SampleRows)],
      [name |-> "orders.csv", rows |-> OrdersChunk1 \o OrdersChunk2],
      [name |-> "people.xlsx", rows |-> PeopleRows],
      [name |-> "catalog.csv", rows |-> CatalogRows],
      [name |-> "stock.csv", rows |-> StockRows],
      [name |-> "one_date.csv", rows |-> OneDateRows],
      [name |-> "three_dates.csv", rows |-> ThreeDateRows],
      [name |-> "duplicates.csv", rows |-> DuplicateRows],
      [name |-> "reordered.csv", rows |-> ReorderedRows],
      [name |-> "numbers.csv", rows |-> NumberRows(51)],
      [name |-> "numbers_50.csv", rows |-> NumberRows(50)],
      [name |-> "numbers_100.csv", rows |-> NumberRows(100)],
      [name |-> "numbers_101.csv", rows |-> NumberRows(101)],
      [name |-> "two_numbers.csv", rows |-> TwoNumberRows],
      [name |-> "rare_100.csv", rows |-> RareRows(100, 1)],
      [name |-> "rare_101.csv", rows |-> RareRows(101, 1)],
      [name |-> "rare_200.csv", rows |-> RareRows(200, 2)],
      [name |-> "rare_201.csv", rows |-> RareRows(201, 2)],
      [name |-> "scores.csv", rows |-> ScoreRows],
      [name |-> "clean.csv", rows |-> CleanRows],
      [name |-> "trips.csv", rows |-> TripRows],
      [name |-> "short_wide.csv", rows |-> WideRows(2, 1, 2001)],
      [name |-> "even_wide.csv", rows |-> WideRows(6, 3, 2001)],
      [name |-> "range_1000.csv", rows |-> WideRows(6, 5, 1001)],
      [name |-> "range_1001.csv", rows |-> WideRows(6, 5, 1002)] }
    \cup { [name |-> "cities_" \o ToString(u) \o ".csv", rows |-> CityRows(u)] :
              u \in {10, 11, 20, 21, 50, 51} }

-----------------------------------------------------------------------------
(* The previewer (computePreviewRows) *)

(* The preview keywords that title.toLowerCase() contains: the column    *)
(* names of the model contain none, so the title's phrase decides.       *)
TitleKeywords(title) ==
    CASE title[1] = "Polynomial features for " -> {"polynomial"}
      [] title[1] = "Normalize skewed "        -> {"normalize skewed"}
      [] title[1] = "Discretize "              -> {"discretize"}
      [] title[1] = "Combine "                 -> {"combine"}
      [] title[1] = "Days between "            -> {"days between"}
      [] title[1] = "Length feature for "      -> {"length feature"}
      [] OTHER -> {}

TitleIncludes(title, kw) == kw \in TitleKeywords(title)

(* { ...r, [key]: v }: an existing key keeps its place, a new one is appended *)
With(r, key, v) ==
    IF \E i \in 1..Len(r) : r[i].c = key
    THEN [i \in 1..Len(r) |-> IF r[i].c = key THEN Cell(key, v) ELSE r[i]]
    ELSE Append(r, Cell(key, v))

(* Number(v) || 1 *)
NumberOrOne(v) == IF v.k = "number" /\ v.n # 0 THEN v.n ELSE 1

(* new Date(v).getTime() in days; NaN for what is no date *)
DayOf(v) == IF v.k = "date" THEN [ok |-> TRUE, day |-> v.n] ELSE [ok |-> FALSE, day |-> 0]

NaN == [k |-> "NaN", n |-> 0, s |-> ""]

(* a number with two decimals, kept as hundredths *)
Hundredths(num, den) == [k |-> "number/100", n |-> (num * 100) \div den, s |-> ""]

Log1p(x) == [k |-> "log1p", n |-> x, s |-> ""]

(* vb || 1 with vb = Number(r[b]) || 1 *)
CombineDenominator(r, b) ==
    LET vb == NumberOrOne(Get(r, b)) IN IF vb = 0 THEN 1 ELSE vb

(* The length feature for every title *)
PreviewLengthForAnyTitle(suggestion, rows) ==
    LET sample == Take(rows, 5)
        cols == suggestion.columns
    IN  IF sample = <<>> \/ cols = <<>> THEN sample
        ELSE [i \in 1..Len(sample) |->
                With(sample[i], cols[1] \o "_length",
                     Num(TextLength(Get(sample[i], cols[1]))))]

computePreviewRows(suggestion, rows) ==
    LET sample == Take(rows, 5)
        cols == suggestion.columns
        primary == cols[1]
        value(r) == NumberOrZero(Get(r, primary))
        map(F(_)) == [i \in 1..Len(sample) |-> F(sample[i])]
    IN  IF sample = <<>> \/ cols = <<>> THEN sample
        ELSE IF TitleIncludes(suggestion.title, "polynomial")
        THEN map(LAMBDA r : With(With(r, primary \o "_squared", Num(value(r) * value(r))),
                                 primary \o "_cubed", Num(value(r) * value(r) * value(r))))
        ELSE IF TitleIncludes(suggestion.title, "normalize skewed")
        THEN map(LAMBDA r : With(r, primary \o "_log",
                                 Log1p(IF value(r) > 0 THEN value(r) ELSE 0)))
        ELSE IF TitleIncludes(suggestion.title, "discretize")
        THEN LET values == SortSeq([i \in 1..Len(sample) |-> value(sample[i])],
                                   LAMBDA a, b : a < b)
                 q1 == Quantile4(values, 1)
                 q3 == Quantile4(values, 3)
             IN  map(LAMBDA r : With(r, primary \o "_band",
                        Str(IF 4 * value(r) < q1 THEN "Low"
                            ELSE IF 4 * value(r) < q3 THEN "Medium" ELSE "High")))
        ELSE IF TitleIncludes(suggestion.title, "combine") /\ Len(cols) >= 2
        THEN map(LAMBDA r : With(r, cols[1] \o "_" \o cols[2] \o "_ratio",
                        Hundredths(NumberOrZero(Get(r, cols[1])),
                                   CombineDenominator(r, cols[2]))))
        ELSE IF TitleIncludes(suggestion.title, "days between") /\ Len(cols) >= 2
        THEN map(LAMBDA r :
                   LET start == DayOf(Get(r, cols[1]))
                       end == DayOf(Get(r, cols[2]))
                   IN  With(r, cols[2] \o "_" \o cols[1] \o "_days",
                            IF start.ok /\ end.ok THEN Num(end.day - start.day) ELSE NaN))
        ELSE IF TitleIncludes(suggestion.title, "length feature")
        THEN map(LAMBDA r : With(r, primary \o "_length", Num(TextLength(Get(r, primary)))))
        ELSE sample

(* The denominators of the ratios a preview evaluates *)
PreviewRatios(suggestion, rows) ==
    LET sample == Take(rows, 5)
        cols == suggestion.columns
    IN  IF /\ sample # <<>> /\ Len(cols) >= 2
           /\ TitleIncludes(suggestion.title, "combine")
        THEN { [site |-> "combine", den |-> CombineDenominator(sample[i], cols[2])] :
                 i \in 1..Len(sample) }
        ELSE {}

-----------------------------------------------------------------------------
(* The App component *)

MaxUiSteps == 1

Rows(ds) == IF ds = NULL THEN <<>> ELSE ds.rows

(* const cols = rows.length ? Object.keys(rows[0]) : [] *)
Cols(rows) == IF Len(rows) > 0 THEN Keys(rows[1]) ELSE <<>>

Max(a, b) == IF a > b THEN a ELSE b

(* analysis (useMemo on rows): null for no rows, else the profile.  The  *)
(* model keeps the fields the effect and the properties read.              *)
Analyse(rows) ==
    IF Len(rows) = 0 THEN NULL
    ELSE LET cols == Cols(rows)
             missing == missingPercentages(rows)
             types == getColumnTypes(rows)
             dup == findDuplicates(rows)
             out == iqrOutliers(rows)
             cat == categoricalSummary(rows)
             (* cols.reduce((s, c) => s + (missing[c] || 0), 0) / cols.length *)
             avgMissing == Ratio(SeqSum([i \in 1..Len(cols) |-> missing[i].percent]),
                                 100 * Len(cols))
             typeIssues == Cardinality({ i \in 1..Len(types) :
                                           Cardinality(types[i].types) > 1 })
             typeIssuesScore ==
                 Ratio(100 * Max(1, Len(cols)) - Min(100 * Max(1, Len(cols)), 100 * typeIssues),
                       Max(1, Len(cols)))
             (* v.unique > rows.length * 0.5 *)
             highCardCols == Cardinality({ i \in 1..Len(cat) : 2 * cat[i].unique > Len(rows) })
             cardinalityScore ==
                 Ratio(100 * Max(1, Len(cols)) - Min(100 * Max(1, Len(cols)), 100 * highCardCols),
                       Max(1, Len(cols)))
             overall == scoreOverall(avgMissing, dup.percent, out.total, Len(rows),
                                     typeIssuesScore, cardinalityScore)
         IN  [rows |-> rows, stats |-> statsForNumeric(rows), cat |-> cat,
              avgMissing |-> avgMissing, dup |-> dup, out |-> out,
              typeIssues |-> typeIssues, highCardCols |-> highCardCols,
              overall |-> overall, badge |-> healthBadge(overall)]

(* The denominators of the scorer inputs the memo computes *)
AnalysisRatios(rows) ==
    IF Len(rows) = 0 THEN {}
    ELSE { [site |-> "avgMissing", den |-> Len(Cols(rows))],
           [site |-> "typeIssuesScore", den |-> Max(1, Len(Cols(rows)))],
           [site |-> "cardinalityScore", den |-> Max(1, Len(Cols(rows)))] }

(* The denominators of the ratios one generation run evaluates: std^3  *)
(* (as the sum of squared deviations) and rows.length                  *)
SuggestionRatios(rows, numericStats, catSummary) ==
    IF rows = <<>> THEN {}
    ELSE { [site |-> "skewness", den |-> SumSquares(Deviations(numericStats[i].values))] :
             i \in { j \in 1..Len(numericStats) :
                       /\ Len(numericStats[j].values) >= 5
                       /\ ~StdIsZero(numericStats[j].values) } }
         \cup
         { [site |-> "rareShare", den |-> Len(rows)] :
             i \in { j \in 1..Len(catSummary) : Includes(Keys(rows[1]), catSummary[j].col) } }

Closure(a) == [rows |-> a.rows, stats |-> a.stats, cat |-> a.cat]

ClearTimeoutNoop(pending, timer) == pending

(* window.clearTimeout(timer) *)
ClearTimeout(pending, timer) == pending \ {timer}

(* A render with a new rows array: the memo recomputes, the previous    *)
(* effect's cleanup runs, then the effect.                              *)
RenderRows(rows) ==
    LET a == Analyse(rows)
        cleared == IF effectTimer = NULL THEN timers ELSE ClearTimeout(timers, effectTimer)
    IN  /\ analysis' = a
        /\ IF a = NULL
           THEN /\ featureSuggestions' = <<>>
                /\ featureSummary' = EmptySummary
                /\ featureHighlight' = <<>>
                /\ featureLoading' = FALSE
                /\ timers' = cleared
                /\ effectTimer' = NULL
           ELSE /\ featureLoading' = TRUE
                /\ timers' = cleared \cup {Closure(a)}
                /\ effectTimer' = Closure(a)
                /\ UNCHANGED <<featureSuggestions, featureSummary, featureHighlight>>

uiVars == <<featureTab, selectedSuggestionIds, expandedSuggestionIds, previewModal>>
featureVars == <<featureLoading, featureSuggestions, featureSummary, featureHighlight,
                 analysis, timers, effectTimer>>

Message(text) == [message |-> text]

Init ==
    /\ dataset = NULL
    /\ error = NULL
    /\ loading = FALSE
    /\ featureLoading = FALSE
    /\ featureSuggestions = <<>>
    /\ featureSummary = EmptySummary
    /\ featureHighlight = <<>>
    /\ featureTab = "all"
    /\ selectedSuggestionIds = <<>>
    /\ expandedSuggestionIds = <<>>
    /\ previewModal = NULL
    /\ analysis = NULL
    /\ timers = {}
    /\ effectTimer = NULL
    /\ parses = {}
    /\ op = [name |-> "init", ui |-> 0]
    /\ ratios = {}
    /\ codeLanguage = "python"
    /\ pipelineScript = NULL
    /\ exported = NULL

(* The step exports nothing and leaves the language and the pipeline alone *)
NoExport == exported' = NULL /\ UNCHANGED <<codeLanguage, pipelineScript>>

Did(name) == op' = [name |-> name, ui |-> op.ui]
DidUi(name) == op.ui < MaxUiSteps /\ op' = [name |-> name, ui |-> op.ui + 1]

UploadSectionAlways == TRUE

(* The upload zone and the sample button are rendered while dataset is null *)
UploadSectionShown == dataset = NULL

(* onFiles, the file over the size limit *)
OnFilesTooLarge(file) ==
    /\ UploadSectionShown
    /\ file.size > MAX_SIZE
    /\ error' = Message("File is larger than 5MB limit.")
    /\ Did("onFilesTooLarge")
    /\ NoExport
    /\ ratios' = {}
    /\ UNCHANGED <<dataset, loading, featureVars, uiVars, parses>>

(* onFiles: the dataset is reset and the reader or the parser started *)
OnFiles(file) ==
    /\ UploadSectionShown
    /\ ~(file.size > MAX_SIZE)
    /\ error' = NULL
    /\ loading' = TRUE
    /\ dataset' = [name |-> file.name, rows |-> <<>>]
    /\ parses' = parses \cup {[file |-> file, delivered |-> 0]}
    /\ RenderRows(<<>>)
    /\ Did("onFiles")
    /\ NoExport
    /\ ratios' = AnalysisRatios(<<>>)
    /\ UNCHANGED uiVars

(* reader.onload, the workbook parsed *)
ExcelLoaded(p) ==
    /\ p \in parses /\ p.file.excel
    /\ dataset' = [name |-> p.file.name, rows |-> p.file.chunks[1]]
    /\ loading' = FALSE
    /\ parses' = parses \ {p}
    /\ RenderRows(p.file.chunks[1])
    /\ Did("excelLoaded")
    /\ NoExport
    /\ ratios' = AnalysisRatios(p.file.chunks[1])
    /\ UNCHANGED <<error, uiVars>>

(* reader.onload, XLSX.read throws *)
ExcelParseFailed(p) ==
    /\ p \in parses /\ p.file.excel
    /\ error' = Message("Failed to parse Excel file")
    /\ loading' = FALSE
    /\ parses' = parses \ {p}
    /\ Did("excelParseFailed")
    /\ NoExport
    /\ ratios' = {}
    /\ UNCHANGED <<dataset, featureVars, uiVars>>

(* reader.onerror *)
ExcelReadError(p) ==
    /\ p \in parses /\ p.file.excel
    /\ error' = Message("Error reading file")
    /\ loading' = FALSE
    /\ parses' = parses \ {p}
    /\ Did("excelReadError")
    /\ NoExport
    /\ ratios' = {}
    /\ UNCHANGED <<dataset, featureVars, uiVars>>

(* Papa.parse chunk: append to the rows of the same file name *)
CsvChunk(p) ==
    /\ p \in parses /\ ~p.file.excel
    /\ p.delivered < Len(p.file.chunks)
    /\ LET data == p.file.chunks[p.delivered + 1]
           prev == IF dataset # NULL /\ dataset.name = p.file.name
                   THEN dataset.rows ELSE <<>>
       IN  /\ dataset' = [name |-> p.file.name, rows |-> prev \o data]
           /\ RenderRows(prev \o data)
           /\ ratios' = AnalysisRatios(prev \o data)
    /\ parses' = (parses \ {p}) \cup {[p EXCEPT !.delivered = @ + 1]}
    /\ Did("csvChunk")
    /\ NoExport
    /\ UNCHANGED <<error, loading, uiVars>>

(* Papa.parse complete *)
CsvComplete(p) ==
    /\ p \in parses /\ ~p.file.excel
    /\ p.delivered = Len(p.file.chunks)
    /\ loading' = FALSE
    /\ parses' = parses \ {p}
    /\ Did("csvComplete")
    /\ NoExport
    /\ ratios' = {}
    /\ UNCHANGED <<dataset, error, featureVars, uiVars>>

(* Papa.parse error: the parse stops where it is *)
CsvError(p) ==
    /\ p \in parses /\ ~p.file.excel
    /\ error' = Message("Failed to parse CSV")
    /\ loading' = FALSE
    /\ parses' = parses \ {p}
    /\ Did("csvError")
    /\ NoExport
    /\ ratios' = {}
    /\ UNCHANGED <<dataset, featureVars, uiVars>>

(* loadSample *)
LoadSample ==
    /\ UploadSectionShown
    /\ dataset' = [name |-> "sample_dataset.csv", rows |-> generateSample(SampleRows)]
    /\ RenderRows(generateSample(SampleRows))
    /\ Did("loadSample")
    /\ NoExport
    /\ ratios' = AnalysisRatios(generateSample(SampleRows))
    /\ UNCHANGED <<error, loading, parses, uiVars>>

TimerFireKeepsLoading(t) ==
    /\ t \in timers
    /\ LET payload == generateFeatureSuggestions(t.rows, t.stats, t.cat)
       IN  /\ featureSuggestions' = payload.suggestions
           /\ featureSummary' = payload.summary
           /\ featureHighlight' = payload.highlight
    /\ selectedSuggestionIds' = <<>>
    /\ expandedSuggestionIds' = <<>>
    /\ featureTab' = "all"
    /\ timers' = timers \ {t}
    /\ Did("timerFire")
    /\ NoExport
    /\ ratios' = SuggestionRatios(t.rows, t.stats, t.cat)
    /\ UNCHANGED <<dataset, error, loading, analysis, effectTimer, parses, previewModal,
                   featureLoading>>

TimerFireKeepsSelection(t) ==
    /\ t \in timers
    /\ LET payload == generateFeatureSuggestions(t.rows, t.stats, t.cat)
       IN  /\ featureSuggestions' = payload.suggestions
           /\ featureSummary' = payload.summary
           /\ featureHighlight' = payload.highlight
    /\ featureLoading' = FALSE
    /\ timers' = timers \ {t}
    /\ Did("timerFire")
    /\ NoExport
    /\ ratios' = SuggestionRatios(t.rows, t.stats, t.cat)
    /\ UNCHANGED <<dataset, error, loading, analysis, effectTimer, parses, previewModal,
                   selectedSuggestionIds, expandedSuggestionIds, featureTab>>

(* The timer callback of the effect: one generation run and its commit *)
TimerFire(t) ==
    /\ t \in timers
    /\ LET payload == generateFeatureSuggestions(t.rows, t.stats, t.cat)
       IN  /\ featureSuggestions' = payload.suggestions
           /\ featureSummary' = payload.summary
           /\ featureHighlight' = payload.highlight
    /\ featureLoading' = FALSE
    /\ selectedSuggestionIds' = <<>>
    /\ expandedSuggestionIds' = <<>>
    /\ featureTab' = "all"
    /\ timers' = timers \ {t}
    /\ Did("timerFire")
    /\ NoExport
    /\ ratios' = SuggestionRatios(t.rows, t.stats, t.cat)
    /\ UNCHANGED <<dataset, error, loading, analysis, effectTimer, parses, previewModal>>

(* The dashboard is rendered when dataset && analysis *)
DashboardShown == dataset # NULL /\ analysis # NULL

filteredSuggestions ==
    CASE featureTab = "all" -> featureSuggestions
      [] featureTab = "high" -> SelectSeq(featureSuggestions, LAMBDA s : s.priority = "high")
      [] featureTab = "quick" -> SelectSeq(featureSuggestions, LAMBDA s : s.complexity = "Easy")
      [] featureTab = "advanced" ->
            SelectSeq(featureSuggestions, LAMBDA s : s.complexity = "Advanced")
      [] OTHER -> featureSuggestions

(* The suggestion cards are rendered unless featureLoading *)
CardsShown == DashboardShown /\ ~featureLoading

(* prev.includes(id) ? prev.filter(x => x !== id) : [...prev, id] *)
Toggle(prev, id) ==
    IF Includes(prev, id) THEN SelectSeq(prev, LAMBDA x : x # id) ELSE Append(prev, id)

ToggleSuggestion(s) ==
    /\ CardsShown /\ Includes(filteredSuggestions, s)
    /\ selectedSuggestionIds' = Toggle(selectedSuggestionIds, s.id)
    /\ DidUi("toggleSuggestion")
    /\ NoExport
    /\ ratios' = {}
    /\ UNCHANGED <<dataset, error, loading, featureVars, parses,
                   featureTab, expandedSuggestionIds, previewModal>>

ToggleExpand(s) ==
    /\ CardsShown /\ Includes(filteredSuggestions, s)
    /\ expandedSuggestionIds' = Toggle(expandedSuggestionIds, s.id)
    /\ DidUi("toggleExpand")
    /\ NoExport
    /\ ratios' = {}
    /\ UNCHANGED <<dataset, error, loading, featureVars, parses,
                   featureTab, selectedSuggestionIds, previewModal>>

SelectAllHeld ==
    /\ DashboardShown
    /\ selectedSuggestionIds' = [i \in 1..Len(featureSuggestions) |-> featureSuggestions[i].id]
    /\ DidUi("selectAllHigh")
    /\ NoExport
    /\ ratios' = {}
    /\ UNCHANGED <<dataset, error, loading, featureVars, parses,
                   featureTab, expandedSuggestionIds, previewModal>>

SelectAllHigh ==
    /\ DashboardShown
    /\ selectedSuggestionIds' =
          LET high == SelectSeq(featureSuggestions, LAMBDA s : s.priority = "high")
          IN  [i \in 1..Len(high) |-> high[i].id]
    /\ DidUi("selectAllHigh")
    /\ NoExport
    /\ ratios' = {}
    /\ UNCHANGED <<dataset, error, loading, featureVars, parses,
                   featureTab, expandedSuggestionIds, previewModal>>

ClearSelection ==
    /\ DashboardShown
    /\ selectedSuggestionIds' = <<>>
    /\ DidUi("clearSelection")
    /\ NoExport
    /\ ratios' = {}
    /\ UNCHANGED <<dataset, error, loading, featureVars, parses,
                   featureTab, expandedSuggestionIds, previewModal>>

SetFeatureTab(tab) ==
    /\ DashboardShown
    /\ featureTab' = tab
    /\ DidUi("setFeatureTab")
    /\ NoExport
    /\ ratios' = {}
    /\ UNCHANGED <<dataset, error, loading, featureVars, parses,
                   selectedSuggestionIds, expandedSuggestionIds, previewModal>>

(* handlePreview: the preview is computed on the rows of the render *)
(* A preview that writes the derived features into the table's rows *)
HandlePreviewInPlace(s) ==
    /\ CardsShown /\ Includes(filteredSuggestions, s)
    /\ LET preview == computePreviewRows(s, Rows(dataset))
       IN  /\ previewModal' = [suggestion |-> s, rows |-> preview]
           /\ dataset' = [dataset EXCEPT !.rows =
                             preview \o SubSeq(@, Len(preview) + 1, Len(@))]
    /\ DidUi("handlePreview")
    /\ NoExport
    /\ ratios' = PreviewRatios(s, Rows(dataset))
    /\ UNCHANGED <<error, loading, featureVars, parses,
                   featureTab, selectedSuggestionIds, expandedSuggestionIds>>

HandlePreview(s) ==
    /\ CardsShown /\ Includes(filteredSuggestions, s)
    /\ previewModal' = [suggestion |-> s, rows |-> computePreviewRows(s, Rows(dataset))]
    /\ DidUi("handlePreview")
    /\ NoExport
    /\ ratios' = PreviewRatios(s, Rows(dataset))
    /\ UNCHANGED <<dataset, error, loading, featureVars, parses,
                   featureTab, selectedSuggestionIds, expandedSuggestionIds>>

ClosePreview ==
    /\ previewModal # NULL
    /\ previewModal' = NULL
    /\ Did("closePreview")
    /\ NoExport
    /\ ratios' = {}
    /\ UNCHANGED <<dataset, error, loading, featureVars, parses,
                   featureTab, selectedSuggestionIds, expandedSuggestionIds>>

-----------------------------------------------------------------------------
(* Scripts and exports *)

Languages == {"python", "r", "sql"}

(* featureSuggestions.filter(s => selectedSuggestionIds.includes(s.id)) *)
selectedSuggestions ==
    SelectSeq(featureSuggestions, LAMBDA s : Includes(selectedSuggestionIds, s.id))

(* `# ${idea.title}\n${idea.code[lang]}` *)
Block(lang, idea) == [title |-> idea.title, code |-> idea.code[lang]]

(* A text made of blocks joined by blank lines; '' has no block *)
Script(blocks) == [text |-> "", blocks |-> blocks]

(* A text that is one comment line *)
Placeholder(text) == [text |-> text, blocks |-> <<>>]

(* buildScript: '' for no idea, else one block per idea *)
buildScript(lang, ideas) ==
    IF ideas = <<>> THEN Script(<<>>)
    ELSE Script([i \in 1..Len(ideas) |-> Block(lang, ideas[i])])

(* script || fallback *)
OrElse(script, fallback) == IF script = Script(<<>>) THEN Placeholder(fallback) ELSE script

(* selectedSuggestions.length ? selectedSuggestions : featureHighlight *)
IdeasToExport(fallback) == IF selectedSuggestions # <<>> THEN selectedSuggestions ELSE fallback

DidExport(name) ==
    /\ Did(name)
    /\ ratios' = {}
    /\ UNCHANGED <<dataset, error, loading, featureVars, parses, uiVars>>

(* setCodeLanguage(lang) *)
SetCodeLanguage(lang) ==
    /\ DashboardShown
    /\ codeLanguage' = lang
    /\ DidUi("setCodeLanguage")
    /\ exported' = NULL
    /\ ratios' = {}
    /\ UNCHANGED <<dataset, error, loading, featureVars, parses, uiVars, pipelineScript>>

(* handleGeneratePipeline *)
HandleGeneratePipeline ==
    /\ DashboardShown
    /\ pipelineScript' =
          OrElse(buildScript(codeLanguage, IdeasToExport(featureHighlight)),
                 "# Select feature engineering ideas to generate a script")
    /\ DidUi("handleGeneratePipeline")
    /\ exported' = NULL
    /\ ratios' = {}
    /\ UNCHANGED <<dataset, error, loading, featureVars, parses, uiVars, codeLanguage>>

(* setPipelineScript(null) *)
ClosePipeline ==
    /\ pipelineScript # NULL
    /\ pipelineScript' = NULL
    /\ DidExport("closePipeline")
    /\ exported' = NULL
    /\ UNCHANGED codeLanguage

(* downloadFeatureScript *)
DownloadFeatureScript ==
    /\ DashboardShown
    /\ exported' = [file |-> "feature_engineering.py",
                    content |-> OrElse(buildScript("python", IdeasToExport(featureHighlight)),
                                       "# No suggestions selected.")]
    /\ DidExport("downloadFeatureScript")
    /\ UNCHANGED <<codeLanguage, pipelineScript>>

(* downloadFeatureChecklist: one entry per idea *)
DownloadFeatureChecklist ==
    /\ DashboardShown
    /\ exported' =
          LET ideas == IdeasToExport(featureSuggestions)
          IN  [file |-> "feature_engineering_checklist.md",
               content |-> [total |-> Len(ideas),
                            items |-> [i \in 1..Len(ideas) |->
                                         [title |-> ideas[i].title,
                                          priority |-> ideas[i].priority,
                                          complexity |-> ideas[i].complexity,
                                          impact |-> ideas[i].impact,
                                          columns |-> ideas[i].columns]]]]
    /\ DidExport("downloadFeatureChecklist")
    /\ UNCHANGED <<codeLanguage, pipelineScript>>

(* The lines of the quality report and of the mail that the model keeps *)
ReportHead == [name |-> dataset.name, rows |-> Len(Rows(dataset)),
               columns |-> Len(Cols(Rows(dataset)))]

(* downloadMarkdown *)
DownloadMarkdown ==
    /\ analysis # NULL /\ dataset # NULL
    /\ DashboardShown
    /\ exported' = [file |-> "data_quality_report.md", content |-> ReportHead]
    /\ DidExport("downloadMarkdown")
    /\ UNCHANGED <<codeLanguage, pipelineScript>>

(* emailReport *)
EmailReport ==
    /\ analysis # NULL /\ dataset # NULL
    /\ DashboardShown
    /\ exported' = [file |-> "mailto:", content |-> ReportHead]
    /\ DidExport("emailReport")
    /\ UNCHANGED <<codeLanguage, pipelineScript>>

(* JSON.stringify(v) *)
JsonValue(v) ==
    CASE v.k = "number" -> [t |-> "number", n |-> v.n, s |-> ""]
      [] v.k \in {"string", "date"} -> [t |-> "string", n |-> 0, s |-> v.s]
      [] OTHER -> [t |-> "null", n |-> 0, s |-> ""]

(* JSON.stringify(r): the pairs in key order *)
JsonStringify(r) == [i \in 1..Len(r) |-> <<r[i].c, JsonValue(r[i].v)>>]

(* rows.filter(r => first time JSON.stringify(r) is seen) *)
Cleaned(rows) ==
    LET first(i) == \A j \in 1..(i - 1) : JsonStringify(rows[j]) # JsonStringify(rows[i])
        kept == SelectSeq([i \in 1..Len(rows) |-> i], first)
    IN  [k \in 1..Len(kept) |-> rows[kept[k]]]

(* downloadCleaned *)
DownloadCleaned ==
    /\ analysis # NULL /\ dataset # NULL
    /\ DashboardShown
    /\ exported' = [file |-> "cleaned_dataset.csv", content |-> Cleaned(Rows(dataset))]
    /\ DidExport("downloadCleaned")
    /\ UNCHANGED <<codeLanguage, pipelineScript>>

Next ==
    \/ \E file \in Files : OnFilesTooLarge(file)
    \/ \E file \in Files : OnFiles(file)
    \/ \E p \in parses : ExcelLoaded(p)
    \/ \E p \in parses : ExcelParseFailed(p)
    \/ \E p \in parses : ExcelReadError(p)
    \/ \E p \in parses : CsvChunk(p)
    \/ \E p \in parses : CsvComplete(p)
    \/ \E p \in parses : CsvError(p)
    \/ LoadSample
    \/ \E t \in timers : TimerFire(t)
    \/ \E s \in Range(featureSuggestions) : ToggleSuggestion(s)
    \/ \E s \in Range(featureSuggestions) : ToggleExpand(s)
    \/ SelectAllHigh
    \/ ClearSelection
    \/ \E tab \in {"all", "high", "quick", "advanced"} : SetFeatureTab(tab)
    \/ \E s \in Range(featureSuggestions) : HandlePreview(s)
    \/ ClosePreview

Spec == Init /\ [][Next]_vars

(* The dashboard once a Table is loaded: the rows are set, the profile is *)
(* computed and the generation run is pending.                           *)
LoadedInit ==
    \E t \in LoadedTables :
       /\ dataset = [name |-> t.name, rows |-> t.rows]
       /\ error = NULL
       /\ loading = FALSE
       /\ featureLoading = TRUE
       /\ featureSuggestions = <<>>
       /\ featureSummary = EmptySummary
       /\ featureHighlight = <<>>
       /\ featureTab = "all"
       /\ selectedSuggestionIds = <<>>
       /\ expandedSuggestionIds = <<>>
       /\ previewModal = NULL
       /\ analysis = Analyse(t.rows)
       /\ timers = {Closure(Analyse(t.rows))}
       /\ effectTimer = Closure(Analyse(t.rows))
       /\ parses = {}
       /\ op = [name |-> "loaded", ui |-> 0]
       /\ ratios = AnalysisRatios(t.rows)
       /\ codeLanguage = "python"
       /\ pipelineScript = NULL
       /\ exported = NULL

(* The handlers of the loaded dashboard *)
LoadedNext ==
    \/ \E t \in timers : TimerFire(t)
    \/ \E s \in Range(featureSuggestions) : ToggleSuggestion(s)
    \/ SelectAllHigh
    \/ \E s \in Range(featureSuggestions) : HandlePreview(s)
    \/ ClosePreview
    \/ \E lang \in Languages : SetCodeLanguage(lang)
    \/ HandleGeneratePipeline
    \/ ClosePipeline
    \/ DownloadFeatureScript
    \/ DownloadFeatureChecklist
    \/ DownloadMarkdown
    \/ EmailReport
    \/ DownloadCleaned

LoadedSpec == LoadedInit /\ [][LoadedNext]_vars

(* onFiles as a function: the body of the handler, whatever is rendered. *)
(* calls counts the invocations in op.ui.                                 *)
MaxCalls == 2

ReturnsChunk == << OrderRow(10, 2, "Rome", 2), OrderRow(10, 2, "Rome", 3) >>

(* A second file with the name of the first and other rows, and a file    *)
(* with another name                                                      *)
CalledFiles ==
    { [name |-> "orders.csv", size |-> 4096, excel |-> FALSE,
       chunks |-> <<OrdersChunk1, OrdersChunk2>>],
      [name |-> "orders.csv", size |-> 1024, excel |-> FALSE,
       chunks |-> <<ReturnsChunk>>],
      [name |-> "returns.csv", size |-> 1024, excel |-> FALSE,
       chunks |-> <<ReturnsChunk>>] }

OnFilesCall(file) ==
    /\ op.ui < MaxCalls
    /\ ~(file.size > MAX_SIZE)
    /\ error' = NULL
    /\ loading' = TRUE
    /\ dataset' = [name |-> file.name, rows |-> <<>>]
    /\ parses' = parses \cup {[file |-> file, delivered |-> 0]}
    /\ RenderRows(<<>>)
    /\ op' = [name |-> "onFiles", ui |-> op.ui + 1]
    /\ NoExport
    /\ ratios' = AnalysisRatios(<<>>)
    /\ UNCHANGED uiVars

(* The upload handlers with onFiles callable during a running parse *)
CallNext ==
    \/ \E file \in CalledFiles : OnFilesCall(file)
    \/ \E p \in parses : CsvChunk(p)
    \/ \E p \in parses : CsvComplete(p)
    \/ \E p \in parses : CsvError(p)
    \/ \E t \in timers : TimerFire(t)

CallSpec == Init /\ [][CallNext]_vars

(* window.setTimeout(..., 350): a pending timer's callback runs.  The     *)
(* steps of Next that satisfy TimerDue are exactly the TimerFire steps,   *)
(* and TimerDue is enabled exactly when a timer is pending (every         *)
(* TimerFire step takes its timer out of the pending set).                *)
TimerDue ==
    \E t \in timers : /\ timers' = timers \ {t}
                      /\ op' = [name |-> "timerFire", ui |-> op.ui]

(* The browser runs the callback of a timer that stays pending: weak      *)
(* fairness of the TimerFire steps.                                       *)
FairSpec == Spec /\ WF_timers(TimerDue)

-----------------------------------------------------------------------------
(* Properties *)

(* What one generation run returns for a Table *)
PayloadOf(rows) ==
    generateFeatureSuggestions(rows, statsForNumeric(rows), categoricalSummary(rows))

Held == [suggestions |-> featureSuggestions, summary |-> featureSummary,
         highlight |-> featureHighlight]

NothingHeld == [suggestions |-> <<>>, summary |-> EmptySummary, highlight |-> <<>>]

Complexities == {"Easy", "Moderate", "Advanced"}

(* The priority the specification derives from impact and complexity *)
DerivedPriority(impact, complexity) ==
    CASE impact >= 4 /\ complexity \in {"Easy", "Moderate"} -> "high"
      [] ~(impact >= 4 /\ complexity \in {"Easy", "Moderate"}) /\ impact <= 2 -> "low"
      [] OTHER -> "medium"

(* C1: the priority of every emitted suggestion is the one derived from its *)
(* impact and complexity (high iff impact >= 4 and Easy or Moderate, else   *)
(* low iff impact <= 2, else medium); impact 5 with Easy is high and impact *)
(* 1 is low for every complexity.                                           *)
C1_PriorityDerived ==
    /\ \A i \in 1..Len(featureSuggestions) :
          featureSuggestions[i].priority =
             DerivedPriority(featureSuggestions[i].impact, featureSuggestions[i].complexity)
    /\ \A impact \in 1..5, complexity \in Complexities :
          priorityFromImpact(impact, complexity) = DerivedPriority(impact, complexity)
    /\ priorityFromImpact(5, "Easy") = "high"
    /\ \A complexity \in Complexities : priorityFromImpact(1, complexity) = "low"

(* A committed list with a high, a low and an impact-4 Advanced (medium) suggestion *)
C1_Witness ==
    /\ op.name = "timerFire"
    /\ \E i \in 1..Len(featureSuggestions) : featureSuggestions[i].priority = "high"
    /\ \E i \in 1..Len(featureSuggestions) : featureSuggestions[i].priority = "low"
    /\ \E i \in 1..Len(featureSuggestions) :
          /\ featureSuggestions[i].impact = 4
          /\ featureSuggestions[i].complexity = "Advanced"
          /\ featureSuggestions[i].priority = "medium"

(* C2: the k-th suggestion of a run has id '{category}-{k}', so the numbers *)
(* run 1..N over the whole list and all ids are distinct.                   *)
C2_SequentialIds ==
    /\ \A k \in 1..Len(featureSuggestions) :
          featureSuggestions[k].id = featureSuggestions[k].category \o "-" \o ToString(k)
    /\ \A i, j \in 1..Len(featureSuggestions) :
          i # j => featureSuggestions[i].id # featureSuggestions[j].id

(* A committed list in which a category's first suggestion is not number 1 *)
C2_Witness ==
    /\ op.name = "timerFire"
    /\ Len(featureSuggestions) >= 5
    /\ \E k \in 2..Len(featureSuggestions) :
          /\ featureSuggestions[k].category # featureSuggestions[k - 1].category
          /\ featureSuggestions[k].id = featureSuggestions[k].category \o "-" \o ToString(k)

CountPriority(list, priority) ==
    Cardinality({ i \in 1..Len(list) : list[i].priority = priority })

(* C3: the summary's total is the number of suggestions, high / medium /   *)
(* low are the numbers of suggestions of that priority, and they add up.   *)
C3_SummaryTally ==
    /\ featureSummary.total = Len(featureSuggestions)
    /\ featureSummary.high = CountPriority(featureSuggestions, "high")
    /\ featureSummary.medium = CountPriority(featureSuggestions, "medium")
    /\ featureSummary.low = CountPriority(featureSuggestions, "low")
    /\ featureSummary.total = featureSummary.high + featureSummary.medium + featureSummary.low

(* A committed run with suggestions of all three priorities *)
C3_Witness ==
    /\ op.name = "timerFire"
    /\ featureSummary.high > 0 /\ featureSummary.medium > 0 /\ featureSummary.low > 0

HighIndexes == { i \in 1..Len(featureSuggestions) : featureSuggestions[i].priority = "high" }

(* C4: the highlight is the first min(3, number of high) high-priority     *)
(* suggestions of the list, in emission order.                             *)
C4_HighlightFirstHigh ==
    /\ Len(featureHighlight) =
          (IF Cardinality(HighIndexes) < 3 THEN Cardinality(HighIndexes) ELSE 3)
    /\ \A j \in 1..Len(featureHighlight) :
          /\ featureHighlight[j].priority = "high"
          /\ \E i \in HighIndexes :
                /\ featureHighlight[j] = featureSuggestions[i]
                /\ Cardinality({ h \in HighIndexes : h < i }) = j - 1

(* More than three high suggestions, and one that is not high before the third *)
C4_Witness ==
    /\ op.name = "timerFire"
    /\ Cardinality(HighIndexes) > 3
    /\ Len(featureHighlight) = 3
    /\ \E i \in 1..Len(featureSuggestions) :
          /\ featureSuggestions[i].priority # "high"
          /\ Cardinality({ h \in HighIndexes : h < i }) < 3

Settled == ~featureLoading /\ Held = PayloadOf(Rows(dataset))

(* C7: once the Table has stopped changing, eventually and from then on    *)
(* featureLoading is false and the results held are those of a run on the  *)
(* final Table (nothing for a Table of no rows).                           *)
C7_EventuallySettled == <>[]Settled

(* The file is complete, its run has committed *)
C7_Witness ==
    /\ Settled
    /\ parses = {}
    /\ Rows(dataset) = OrdersChunk1 \o OrdersChunk2
    /\ featureSuggestions # <<>>

IsStrictPrefix(s, full) == Len(s) < Len(full) /\ s = SubSeq(full, 1, Len(s))

FailureOps == {"onFilesTooLarge", "excelParseFailed", "excelReadError", "csvError"}

(* {error && ...} is rendered inside the section shown while dataset is null *)
ErrorVisible == error # NULL /\ UploadSectionShown

(* C9: after every ingestion failure an error message is set and visible,  *)
(* and no rows received before the failure are the Table the core analyses *)
C9_FailureVisibleAndNoPartialTable ==
    op.name \in FailureOps => (error # NULL /\ ErrorVisible /\ analysis = NULL)

ProfileInputs == { [stats |-> statsForNumeric(AllRows(f)), cat |-> categoricalSummary(AllRows(f))] :
                     f \in Files }

(* C11: on a Table of no rows the engine returns no suggestion, a summary  *)
(* of zeros and no highlight whatever the profile it is handed; and while  *)
(* the Table has no rows nothing is held and no run is pending.            *)
C11_EmptyTableEmptyResults ==
    /\ \A in \in ProfileInputs :
          generateFeatureSuggestions(<<>>, in.stats, in.cat) = NothingHeld
    /\ Rows(dataset) = <<>> => (Held = NothingHeld /\ timers = {} /\ ~featureLoading)

(* A file of no rows has been parsed to its end *)
C11_Witness ==
    /\ op.name = "csvComplete"
    /\ dataset # NULL /\ Rows(dataset) = <<>>
    /\ Held = NothingHeld /\ timers = {}
    /\ \E in \in ProfileInputs : in.stats # <<>>

(* C12: a preview of a suggestion whose title matches none of the preview  *)
(* patterns (polynomial, normalize skewed, discretize, combine and days    *)
(* between with two columns, length feature), or which names no column,    *)
(* is the first min(5, n) rows of the table, unchanged.                    *)
NoPreviewPattern(suggestion) ==
    \/ suggestion.columns = <<>>
    \/ TitleKeywords(suggestion.title) = {}
    \/ /\ TitleKeywords(suggestion.title) \subseteq {"combine", "days between"}
       /\ Len(suggestion.columns) < 2

C12_UnmatchedPreviewIsSample ==
    /\ \A i \in 1..Len(featureSuggestions) :
          NoPreviewPattern(featureSuggestions[i]) =>
             computePreviewRows(featureSuggestions[i], Rows(dataset)) = Take(Rows(dataset), 5)
    /\ (op.name = "handlePreview" /\ NoPreviewPattern(previewModal.suggestion)) =>
          /\ previewModal.rows = Take(Rows(dataset), 5)
          /\ Len(previewModal.rows) = IF Len(Rows(dataset)) < 5 THEN Len(Rows(dataset)) ELSE 5

C12_Witness ==
    /\ op.name = "handlePreview"
    /\ previewModal.suggestion.columns = <<>>
    /\ Len(Rows(dataset)) > 5
    /\ previewModal.rows = SubSeq(Rows(dataset), 1, 5)

C12_WitnessUnmatchedTitle ==
    /\ op.name = "handlePreview"
    /\ previewModal.suggestion.columns # <<>>
    /\ TitleKeywords(previewModal.suggestion.title) = {}
    /\ Len(Rows(dataset)) < 5
    /\ previewModal.rows = Rows(dataset)

(* C13: no step of the loaded dashboard (generation runs, selection,      *)
(* previews, script and file exports) changes the table: every row keeps  *)
(* the keys and values it was ingested with; a preview is a new list of   *)
(* rows.                                                                  *)
C13_TableNeverChanged == [][dataset' = dataset]_vars

C13_Witness ==
    /\ op.name = "downloadCleaned"
    /\ ~featureLoading /\ featureSuggestions # <<>>
    /\ previewModal # NULL
    /\ previewModal.rows # Take(Rows(dataset), 5)
    /\ \E t \in LoadedTables : dataset = [name |-> t.name, rows |-> t.rows]

(* C14: the python, r and sql templates of every held suggestion render   *)
(* the same transformation: the same statements, each the same operation  *)
(* on the same operands and parameters giving the same feature.           *)
C14_TemplatesAgree ==
    \A i \in 1..Len(featureSuggestions) :
       LET code == featureSuggestions[i].code
       IN  code.python = code.r /\ code.r = code.sql

(* C15: after a generation run every column of the categorical summary    *)
(* has exactly one suggestion 'Encode <column>', of impact 5, chosen by    *)
(* the column's unique count u: u <= 10 one-hot and Easy, 10 < u <= 20     *)
(* ordinal, 20 < u <= 50 target, u > 50 frequency, these three Moderate.   *)
EncodeIdeas(col) ==
    { i \in 1..Len(featureSuggestions) : featureSuggestions[i].title = <<"Encode ", col>> }

C15_OneEncodingPerCategorical ==
    (analysis # NULL /\ ~featureLoading) =>
       \A k \in 1..Len(analysis.cat) :
          LET col == analysis.cat[k].col
              u == analysis.cat[k].unique
          IN  /\ Cardinality(EncodeIdeas(col)) = 1
              /\ \A i \in EncodeIdeas(col) :
                    LET s == featureSuggestions[i]
                    IN  /\ s.impact = 5
                        /\ s.columns = <<col>>
                        /\ u <= 10 => s.example[2] = "One-Hot Encoding" /\ s.complexity = "Easy"
                        /\ (10 < u /\ u <= 20) =>
                              s.example[2] = "Ordinal Encoding" /\ s.complexity = "Moderate"
                        /\ (20 < u /\ u <= 50) =>
                              s.example[2] = "Target Encoding" /\ s.complexity = "Moderate"
                        /\ u > 50 =>
                              s.example[2] = "Frequency Encoding" /\ s.complexity = "Moderate"

(* A run has answered for a column of exactly 20 unique values *)
C15_Witness ==
    /\ op.name = "timerFire"
    /\ \E k \in 1..Len(analysis.cat) :
          /\ analysis.cat[k].unique = 20
          /\ \E i \in EncodeIdeas(analysis.cat[k].col) :
                featureSuggestions[i].example[2] = "Ordinal Encoding"

(* C16: after a generation run, for every numeric column whose name       *)
(* contains 'price' and every other numeric column whose name contains    *)
(* 'quantity' a 'Ratio' suggestion (impact 4, Easy) is held for the pair,  *)
(* whichever of the two comes first among the numeric columns.            *)
C16_RatioForEveryPricedPair ==
    (analysis # NULL /\ ~featureLoading) =>
       \A i, j \in 1..Len(analysis.stats) :
          LET a == analysis.stats[i].col
              b == analysis.stats[j].col
          IN  (i # j /\ NameIncludes(a, "price") /\ NameIncludes(b, "quantity")) =>
                 \E k \in 1..Len(featureSuggestions) :
                    LET s == featureSuggestions[k]
                    IN  /\ s.title[1] = "Ratio "
                        /\ Range(s.columns) = {a, b}
                        /\ s.impact = 4 /\ s.complexity = "Easy"

(* C17: after a generation run a numeric column has a 'Scale' suggestion  *)
(* (impact 3, Easy) exactly when max - min of its values exceeds 1000,    *)
(* whatever the number of its values and whatever its skewness.           *)
C17_ScaleIffWideRange ==
    (analysis # NULL /\ ~featureLoading) =>
       \A k \in 1..Len(analysis.stats) :
          LET col == analysis.stats[k].col
              values == analysis.stats[k].values
              scale == { i \in 1..Len(featureSuggestions) :
                           featureSuggestions[i].title = <<"Scale ", col>> }
          IN  /\ (SeqMax(values) - SeqMin(values) > 1000) <=> (scale # {})
              /\ \A i \in scale : /\ featureSuggestions[i].impact = 3
                                   /\ featureSuggestions[i].complexity = "Easy"

(* C18: after a generation run on a table with exactly one date-like      *)
(* column the suggestions of category datetime are exactly two, the       *)
(* component extraction immediately followed by the cyclical encoding of  *)
(* that column, and none is 'Days between'; a 'Days between' suggestion   *)
(* is held iff the table has two date-like columns or more, and then      *)
(* exactly one, for the first two of them in column order.                *)
DateLikeColumns ==
    SelectSeq(Keys(Rows(dataset)[1]),
              LAMBDA c : \E i \in 1..Len(Rows(dataset)) : Get(Rows(dataset)[i], c).k = "date")

DatetimeIdeasHeld ==
    { i \in 1..Len(featureSuggestions) : featureSuggestions[i].category = "datetime" }

DaysBetweenHeld ==
    { i \in 1..Len(featureSuggestions) : featureSuggestions[i].title[1] = "Days between " }

C18_DatetimeIdeas ==
    (analysis # NULL /\ ~featureLoading) =>
       LET dates == DateLikeColumns
       IN  /\ Len(dates) = 1 =>
                 /\ DaysBetweenHeld = {}
                 /\ \E i \in 1..Len(featureSuggestions) :
                       /\ DatetimeIdeasHeld = {i, i + 1}
                       /\ featureSuggestions[i].title =
                             <<"Extract components from ", dates[1]>>
                       /\ featureSuggestions[i + 1].title =
                             <<"Cyclical encoding for ", dates[1]>>
           /\ (DaysBetweenHeld # {}) <=> (Len(dates) >= 2)
           /\ Len(dates) >= 2 =>
                 /\ Cardinality(DaysBetweenHeld) = 1
                 /\ \A i \in DaysBetweenHeld :
                       /\ featureSuggestions[i].title =
                             <<"Days between ", dates[1], " & ", dates[2]>>
                       /\ featureSuggestions[i].columns = <<dates[1], dates[2]>>

(* A run has answered for a table with one date-like column *)
C18_Witness ==
    /\ op.name = "timerFire"
    /\ Len(DateLikeColumns) = 1
    /\ Cardinality(DatetimeIdeasHeld) = 2
    /\ DaysBetweenHeld = {}

C18_WitnessThreeDates ==
    /\ op.name = "timerFire"
    /\ Len(DateLikeColumns) = 3
    /\ Cardinality(DaysBetweenHeld) = 1

(* C19: the generated pipeline and the downloaded script are one block    *)
(* per selected suggestion, in suggestion order, each block the template  *)
(* of the chosen language, and nothing else.                              *)
SelectedBlocks ==
    [text |-> "",
     blocks |-> [i \in 1..Len(selectedSuggestions) |->
                   [title |-> selectedSuggestions[i].title,
                    code |-> selectedSuggestions[i].code[codeLanguage]]]]

C19_ScriptIsSelectedInChosenLanguage ==
    /\ op.name = "handleGeneratePipeline" => pipelineScript = SelectedBlocks
    /\ op.name = "downloadFeatureScript" => exported.content = SelectedBlocks

(* C20: the cleaned export keeps, in order, exactly the rows the duplicate *)
(* detector does not count (a later row with the column/value pairs of an  *)
(* earlier one is dropped, whatever its key order), so it has row count    *)
(* minus duplicate count rows, and cleaning its result removes nothing.    *)
NotDuplicates(rows) ==
    LET kept == SelectSeq([i \in 1..Len(rows) |-> i],
                          LAMBDA i : i \notin DuplicateIndexes(rows))
    IN  [k \in 1..Len(kept) |-> rows[kept[k]]]

SignalInRange(x) == ~IsNaN(x) /\ 0 <= x.num /\ x.num <= 100 * x.den

C22_CleanTableScoresHundred ==
    /\ Weights.completeness + Weights.duplicates + Weights.outliers
          + Weights.types + Weights.cardinality = 100
    /\ (/\ analysis # NULL
        /\ ~IsNaN(analysis.avgMissing) /\ analysis.avgMissing.num = 0
        /\ analysis.dup.count = 0
        /\ analysis.out.total = 0
        /\ analysis.typeIssues = 0
        /\ analysis.highCardCols = 0)
       => (~analysis.overall.nan /\ analysis.overall.tenths = 1000)

(* A clean table with a categorical column has been profiled *)
C22_Witness ==
    /\ analysis # NULL
    /\ analysis.avgMissing = Ratio(0, 100 * Len(Cols(analysis.rows)))
    /\ analysis.dup.count = 0 /\ analysis.out.total = 0
    /\ analysis.typeIssues = 0 /\ analysis.highCardCols = 0
    /\ analysis.cat # <<>> /\ analysis.stats # <<>>
    /\ analysis.overall.tenths = 1000
    /\ analysis.badge = "Excellent"

(* The rows held are the first chunks of one file of the held name, or the *)
(* sample                                                                  *)
RowsOfOneUpload(files) ==
    dataset # NULL =>
       \/ \E f \in files : /\ f.name = dataset.name
                            /\ \E k \in 0..Len(f.chunks) :
                                  dataset.rows = Concat(SubSeq(f.chunks, 1, k))
       \/ dataset = [name |-> "sample_dataset.csv", rows |-> generateSample(SampleRows)]

C23_OneUploadThroughUi == Cardinality(parses) <= 1 /\ RowsOfOneUpload(Files)

(* featureLoading becomes true in a step that schedules the run of the   *)
(* new, non-empty Table                                                   *)
LoadingSetBySchedule ==
    (~featureLoading /\ featureLoading') =>
        (analysis' # NULL /\ timers' = {Closure(analysis')})

(* featureLoading becomes false in the commit of the pending run or in a  *)
(* step that leaves no rows                                               *)
LoadingClearedByCommitOrEmpty ==
    (featureLoading /\ ~featureLoading') =>
        ((op'.name = "timerFire" /\ timers = {effectTimer} /\ timers' = {})
           \/ (analysis' = NULL /\ Rows(dataset') = <<>>))

(* C24: at most one generation timer is pending and featureLoading is     *)
(* true exactly when one is pending; featureLoading is set by a step that *)
(* schedules a run for a non-empty Table and cleared only by the commit   *)
(* of the pending run or by the Table becoming empty.                     *)
C24_OneTimerAndLoadingFlag ==
    /\ [](Cardinality(timers) <= 1 /\ (featureLoading <=> timers # {}))
    /\ [][LoadingSetBySchedule /\ LoadingClearedByCommitOrEmpty]_vars

(* A second chunk replaced the pending run of the first: one timer, the   *)
(* flag still set                                                         *)
C24_Witness ==
    /\ op.name = "csvChunk"
    /\ \E p \in parses : p.delivered = 2
    /\ featureLoading
    /\ timers = {Closure(Analyse(dataset.rows))}

(* The run committed: no timer, the flag cleared *)
C24_WitnessCommitted ==
    /\ op.name = "timerFire"
    /\ ~featureLoading
    /\ timers = {}
    /\ dataset # NULL /\ Len(dataset.rows) > 0

(* C25: every commit of a generation run leaves the selected ids and the  *)
(* expanded ids empty and the filter tab on 'all'.                        *)
C25_CommitResetsSelection ==
    [][op'.name = "timerFire" =>
          (/\ selectedSuggestionIds' = <<>>
           /\ expandedSuggestionIds' = <<>>
           /\ featureTab' = "all")]_vars

(* A run committed after a step of the user on the cards held before *)
C25_Witness ==
    /\ op = [name |-> "timerFire", ui |-> MaxUiSteps]
    /\ featureSuggestions # <<>>
    /\ selectedSuggestionIds = <<>> /\ expandedSuggestionIds = <<>> /\ featureTab = "all"

HeldIds == { featureSuggestions[i].id : i \in 1..Len(featureSuggestions) }

HighIds == { featureSuggestions[i].id :
               i \in { j \in 1..Len(featureSuggestions) : featureSuggestions[j].priority = "high" } }

(* C26: every selected id is the id of a suggestion of the held list, and *)
(* selectAllHigh makes the selection exactly the ids of the held          *)
(* suggestions of priority 'high'.                                        *)
C26_SelectionWithinHeld ==
    /\ Range(selectedSuggestionIds) \subseteq HeldIds
    /\ op.name = "selectAllHigh" =>
          /\ Range(selectedSuggestionIds) = HighIds
          /\ Len(selectedSuggestionIds) = Cardinality(HighIds)

(* selectAllHigh selected some of the held suggestions and left others *)
C26_Witness ==
    /\ op.name = "selectAllHigh"
    /\ selectedSuggestionIds # <<>>
    /\ HeldIds \ Range(selectedSuggestionIds) # {}

(* One card was selected by its checkbox *)
C26_WitnessToggled ==
    /\ op.name = "toggleSuggestion"
    /\ Len(selectedSuggestionIds) = 1

(* The handlers of the upload section *)
LoadOps == {"onFiles", "onFilesTooLarge", "loadSample"}

(* C27: once set, the dataset is never null again; from then on no handler *)
(* of the upload section runs, and an error message is never displayed.    *)
C27_NoReloadAfterFirstLoad ==
    /\ [][dataset # NULL => (dataset' # NULL /\ op'.name \notin LoadOps)]_vars
    /\ [](dataset # NULL => ~ErrorVisible)

(* The parse of an accepted file failed: the message is set and not shown *)
C27_Witness ==
    /\ op.name = "csvError"
    /\ dataset # NULL
    /\ error = Message("Failed to parse CSV")
    /\ ~ErrorVisible

(* The place of a category in the order numeric, categorical, datetime, domain *)
CategoryRank(category) ==
    CASE category = "numeric" -> 1
      [] category = "categorical" -> 2
      [] category = "datetime" -> 3
      [] category = "domain" -> 4

CategoriesHeld == { featureSuggestions[i].category : i \in 1..Len(featureSuggestions) }

(* C28: in every returned list the categories form contiguous blocks in   *)
(* the order numeric, categorical, datetime, domain: no suggestion is     *)
(* followed by one of an earlier category.                                *)
C28_CategoriesInBlocks ==
    /\ CategoriesHeld \subseteq {"numeric", "categorical", "datetime", "domain"}
    /\ \A i, j \in 1..Len(featureSuggestions) :
          i < j => CategoryRank(featureSuggestions[i].category)
                      <= CategoryRank(featureSuggestions[j].category)

(* A committed list with suggestions of all four categories *)
C28_Witness ==
    /\ op.name = "timerFire"
    /\ CategoriesHeld = {"numeric", "categorical", "datetime", "domain"}

(* The places in the held list of the suggestions with a title *)
PlacesOf(title) == { i \in 1..Len(featureSuggestions) : featureSuggestions[i].title = title }

PolynomialPlaces(col) == PlacesOf(<<"Polynomial features for ", col>>)
DiscretizePlaces(col) == PlacesOf(<<"Discretize ", col>>)

(* The number of distinct values of numeric column i of the profile *)
DistinctOf(i) == Cardinality(Range(analysis.stats[i].values))

(* C29: in a committed run a column with a Polynomial suggestion has a    *)
(* Discretize suggestion, every Polynomial suggestion stands before every *)
(* Discretize suggestion, a column of 51 to 100 distinct values has       *)
(* Discretize and no Polynomial, a column of at most 50 has neither.      *)
C29_PolynomialImpliesDiscretize ==
    (op.name = "timerFire" /\ analysis # NULL) =>
       LET cols == { analysis.stats[i].col : i \in 1..Len(analysis.stats) }
       IN  /\ \A c \in cols : PolynomialPlaces(c) # {} => DiscretizePlaces(c) # {}
           /\ \A c, d \in cols : \A i \in PolynomialPlaces(c), j \in DiscretizePlaces(d) : i < j
           /\ \A i \in 1..Len(analysis.stats) :
                 LET c == analysis.stats[i].col
                 IN  /\ (51 <= DistinctOf(i) /\ DistinctOf(i) <= 100) =>
                            (DiscretizePlaces(c) # {} /\ PolynomialPlaces(c) = {})
                     /\ DistinctOf(i) <= 50 =>
                            (DiscretizePlaces(c) = {} /\ PolynomialPlaces(c) = {})

(* A committed run for a table with a column of more than 100 distinct    *)
(* values and a column of 51: two Discretize suggestions after the one    *)
(* Polynomial suggestion                                                  *)
C29_Witness ==
    /\ op.name = "timerFire"
    /\ dataset.name = "two_numbers.csv"
    /\ PolynomialPlaces("score") = {1}
    /\ DiscretizePlaces("score") = {2}
    /\ DiscretizePlaces("age") = {3}
    /\ PolynomialPlaces("age") = {}

(* A committed run for a column of exactly 50 distinct values *)
C29_WitnessFifty ==
    /\ op.name = "timerFire"
    /\ dataset.name = "numbers_50.csv"
    /\ DistinctOf(1) = 50
    /\ DiscretizePlaces("score") = {} /\ PolynomialPlaces("score") = {}

GroupRarePlaces(col) == PlacesOf(<<"Group rare ", col, " categories">>)

(* Some cell content of the column is that of less than 1% of the rows *)
HasRareValue(rows, col) ==
    \E i \in 1..Len(rows) :
       100 * Cardinality({ j \in 1..Len(rows) : Get(rows[j], col) = Get(rows[i], col) })
          < Len(rows)

(* C30: a committed run holds a 'Group rare' suggestion for a categorical *)
(* column iff one of its values occurs in strictly less than 1% of the    *)
(* rows; for a Table of at most 100 rows it holds none.                   *)
C30_RareIffBelowOnePercent ==
    (op.name = "timerFire" /\ analysis # NULL) =>
       /\ \A i \in 1..Len(analysis.cat) :
             LET c == analysis.cat[i].col
             IN  GroupRarePlaces(c) # {} <=> HasRareValue(analysis.rows, c)
       /\ Len(analysis.rows) <= 100 =>
             \A i \in 1..Len(featureSuggestions) :
                featureSuggestions[i].title[1] # "Group rare "

(* 1 row of 101 has the rare value: the suggestion is held *)
C30_Witness ==
    /\ op.name = "timerFire"
    /\ dataset.name = "rare_101.csv"
    /\ GroupRarePlaces("city") # {}

(* 1 row of 100, a share of exactly 1%: no suggestion *)
C30_WitnessOnePercent ==
    /\ op.name = "timerFire"
    /\ dataset.name = "rare_100.csv"
    /\ featureSuggestions # <<>>
    /\ GroupRarePlaces("city") = {}

====
